---- MODULE Spec2Model ----
(***************************************************************************)
(* TranscriptClean: per-record correction engine (correct_transcript and   *)
(* the stages it runs), modelled from src/TranscriptClean.py.              *)
(*                                                                         *)
(* Strings of bases are sequences of one-letter strings.  A CIGAR string   *)
(* is the sequence of its (count, operation) tokens, each a record         *)
(* [op, ct]; string concatenation of tokens is sequence concatenation, so  *)
(* "2M" followed by "3M" stays two tokens, as it does when the code        *)
(* re-parses the string with splitCIGAR.  One chromosome, "+" strand.      *)
(***************************************************************************)
EXTENDS Integers, Sequences, FiniteSets, TLC

(***************************************************************************)
(* Bounds of the model.                                                    *)
(***************************************************************************)
\* longest Insertion / Deletion run drawn for an input record
MaxCt == 2
\* the option maxLenIndel is drawn from 0..MaxLenIndelOpt
MaxLenIndelOpt == 2
\* the option maxSJOffset is drawn from 0..MaxSJOffsetOpt
MaxSJOffsetOpt == 2
\* an observed junction boundary lies at most MaxShift bases from the motif
MaxShift == 2
\* arguments of combinedJunctionDist are drawn from -MaxDist..MaxDist
MaxDist == 5

(***************************************************************************)
(* Small helpers.                                                          *)
(***************************************************************************)
Min(a, b) == IF a < b THEN a ELSE b

Max(a, b) == IF a > b THEN a ELSE b

abs(x) == IF x < 0 THEN 0 - x ELSE x

\* Python slice s[a:b] for 0 <= a, clipped at the end of the string
Slice(s, a, b) == SubSeq(s, a + 1, Min(b, Len(s)))

\* Python slice s[0:d] for d < 0: drop the last |d| characters
DropLast(s, n) == SubSeq(s, 1, Max(Len(s) - n, 0))

\* Python slice s[d:] for d > 0: drop the first d characters
DropFirst(s, n) == SubSeq(s, Min(n, Len(s)) + 1, Len(s))

Rep(x, n) == [i \in 1..n |-> x]

Tok(o, c) == [op |-> o, ct |-> c]

RECURSIVE SumCt(_, _)
\* sum of the counts of the tokens of cigar whose operation is in kinds
SumCt(cigar, kinds) ==
    IF cigar = <<>> THEN 0
    ELSE (IF Head(cigar).op \in kinds THEN Head(cigar).ct ELSE 0)
         + SumCt(Tail(cigar), kinds)

(***************************************************************************)
(* The reference genome: a periodic chromosome whose period holds the      *)
(* canonical intron motif GT...AG at offsets 4,5 and 7,8.                  *)
(***************************************************************************)
GenomePeriod == <<"C", "A", "C", "G", "T", "A", "A", "G">>

GenomeLen == 4 * Len(GenomePeriod)

GenomeBase(i) == GenomePeriod[((i - 1) % Len(GenomePeriod)) + 1]

\* genome.sequence({'chr', 'start', 'stop'}, one_based=True): the bases of
\* the inclusive span, or a failure when the span leaves the chromosome
GenomeSequence(start, stop) ==
    IF start < 1 \/ stop > GenomeLen \/ stop < start - 1
    THEN [ok |-> FALSE, seq |-> <<>>]
    ELSE [ok |-> TRUE, seq |-> [i \in 1..(stop - start + 1) |-> GenomeBase(start + i - 1)]]

(***************************************************************************)
(* Transcript tags.  The mismatch tag MD is the sequence of its tokens     *)
(* [t, v, bs]: "n" a match-run length v, "x" one mismatching reference     *)
(* base bs, "d" a deletion marker with the deleted reference bases bs.     *)
(* A number token stands between any two letter tokens, at both ends too.  *)
(* Reference positions follow the data model: Match, Deletion and Skip     *)
(* consume the reference, Insertion and SoftClip consume the read.         *)
(***************************************************************************)
MDn(v) == [t |-> "n", v |-> v, bs |-> <<>>]

MDx(b) == [t |-> "x", v |-> 1, bs |-> <<b>>]

MDd(bs) == [t |-> "d", v |-> Len(bs), bs |-> bs]

\* one aligned base of a Match run
TagBase(st, seq) ==
    IF st.seqPos + 1 > Len(seq) \/ st.genomePos < 1 \/ st.genomePos > GenomeLen
    THEN [st EXCEPT !.ok = FALSE]
    ELSE IF seq[st.seqPos + 1] = GenomeBase(st.genomePos)
         THEN [st EXCEPT !.run = @ + 1, !.seqPos = @ + 1, !.genomePos = @ + 1]
         ELSE [st EXCEPT !.md = @ \o <<MDn(st.run), MDx(GenomeBase(st.genomePos))>>,
                         !.run = 0, !.nm = @ + 1,
                         !.seqPos = @ + 1, !.genomePos = @ + 1]

RECURSIVE TagRun(_, _, _)
TagRun(st, seq, k) ==
    IF k = 0 \/ ~st.ok THEN st ELSE TagRun(TagBase(st, seq), seq, k - 1)

TagOp(st, seq, o) ==
    CASE o.op = "M" -> TagRun(st, seq, o.ct)
      [] o.op = "I" -> [st EXCEPT !.nm = @ + o.ct, !.seqPos = @ + o.ct]
      [] o.op = "S" -> [st EXCEPT !.seqPos = @ + o.ct]
      [] o.op = "D" ->
           LET ref == GenomeSequence(st.genomePos, st.genomePos + o.ct - 1)
           IN  IF ~ref.ok THEN [st EXCEPT !.ok = FALSE]
               ELSE [st EXCEPT !.md = @ \o <<MDn(st.run), MDd(ref.seq)>>,
                               !.run = 0, !.nm = @ + o.ct,
                               !.genomePos = @ + o.ct]
      [] o.op = "N" -> [st EXCEPT !.genomePos = @ + o.ct]
      [] OTHER -> st

RECURSIVE TagWalk(_, _, _)
TagWalk(st, seq, cigar) ==
    IF cigar = <<>> \/ ~st.ok THEN st
    ELSE TagWalk(TagOp(st, seq, Head(cigar)), seq, Tail(cigar))

\* Transcript.getNMandMDFlags(genome): the edit distance and the mismatch
\* tag of (POS, CIGAR, SEQ) against the genome; ok = FALSE when it raises
getNMandMDFlags(POS, CIGAR, SEQ) ==
    LET st == TagWalk([seqPos |-> 0, genomePos |-> POS, run |-> 0,
                       md |-> <<>>, nm |-> 0, ok |-> TRUE], SEQ, CIGAR)
    IN  [ok |-> st.ok, NM |-> st.nm, MD |-> st.md \o <<MDn(st.run)>>]

RECURSIVE MergeM(_, _)
\* split need bases of a Match run into Match / Mismatch sub-runs
MergeM(st, need) ==
    IF need = 0 \/ ~st.ok THEN st
    ELSE IF st.rem > 0
         THEN LET take == Min(st.rem, need)
              IN  MergeM([st EXCEPT !.out = Append(@, Tok("M", take)),
                                    !.rem = @ - take], need - take)
         ELSE IF st.md = <<>> \/ Head(st.md).t = "d"
              THEN [st EXCEPT !.ok = FALSE]
              ELSE IF Head(st.md).t = "n"
                   THEN MergeM([st EXCEPT !.rem = Head(st.md).v, !.md = Tail(@)], need)
                   ELSE MergeM([st EXCEPT !.out = Append(@, Tok("X", 1)),
                                          !.md = Tail(@)], need - 1)

RECURSIVE MergeD(_, _)
\* a Deletion run takes the deletion marker of the tag
MergeD(st, o) ==
    IF st.rem > 0 \/ st.md = <<>> THEN [st EXCEPT !.ok = FALSE]
    ELSE IF Head(st.md).t = "n"
         THEN IF Head(st.md).v = 0 THEN MergeD([st EXCEPT !.md = Tail(@)], o)
              ELSE [st EXCEPT !.ok = FALSE]
         ELSE IF Head(st.md).t = "d" /\ Head(st.md).v = o.ct
              THEN [st EXCEPT !.out = Append(@, o), !.md = Tail(@)]
              ELSE [st EXCEPT !.ok = FALSE]

RECURSIVE MergeWalk(_, _)
MergeWalk(st, cigar) ==
    IF cigar = <<>> \/ ~st.ok THEN st
    ELSE LET o == Head(cigar)
             nx == CASE o.op = "M" -> MergeM(st, o.ct)
                     [] o.op = "D" -> MergeD(st, o)
                     [] OTHER -> [st EXCEPT !.out = Append(@, o)]
         IN  MergeWalk(nx, Tail(cigar))

\* Transcript.mergeMDwithCIGAR(): the extended operation stream, in which
\* "X" is a mismatch; ok = FALSE when the two streams disagree
mergeMDwithCIGAR(CIGAR, MD) ==
    LET st == MergeWalk([out |-> <<>>, md |-> MD, rem |-> 0, ok |-> TRUE], CIGAR)
    IN  [ok |-> st.ok /\ st.rem = 0
                /\ \A i \in 1..Len(st.md) : st.md[i].t = "n" /\ st.md[i].v = 0,
         ops |-> st.out]

\* any(i in origMD.upper() for i in 'ACTGN')
HasLetters(MD) == \E i \in 1..Len(MD) : MD[i].t \in {"x", "d"}

(***************************************************************************)
(* Log entries and per-record counters.                                    *)
(***************************************************************************)
\* one line of the transcript error log; the ID chrom_start_end is the
\* tuple of its numbers (chrom_pos for a mismatch)
TEEntry(id, kind, size, status, reason) ==
    [id |-> id, kind |-> kind, size |-> size, status |-> status, reason |-> reason]

\* the counter value "NA"
NA == -1

init_log_info ==
    [corrected_deletions |-> NA, uncorrected_deletions |-> NA,
     variant_deletions |-> NA, corrected_insertions |-> NA,
     uncorrected_insertions |-> NA, variant_insertions |-> NA,
     corrected_mismatches |-> NA, uncorrected_mismatches |-> NA,
     corrected_NC_SJs |-> NA, uncorrected_NC_SJs |-> NA]

(***************************************************************************)
(* Mismatch, insertion and deletion correction.  Each stage walks the      *)
(* operations with the accumulators of the code; st.ok = FALSE records     *)
(* that the walk raised.  failCall > 0 makes the failCall-th reference     *)
(* lookup of the stage raise (a lookup failure of the genome accessor).    *)
(***************************************************************************)
endMatch(MVal, newCIGAR) ==
    IF MVal > 0
    THEN [MVal |-> 0, newCIGAR |-> Append(newCIGAR, Tok("M", MVal))]
    ELSE [MVal |-> MVal, newCIGAR |-> newCIGAR]

\* the walk state after "MVal, newCIGAR = endMatch(MVal, newCIGAR)"
EndRun(st) ==
    LET e == endMatch(st.MVal, st.newCIGAR)
    IN  [st EXCEPT !.MVal = e.MVal, !.newCIGAR = e.newCIGAR]

\* walk variables whose corrected counter starts at one
WalkInitCounted(POS) ==
    [newCIGAR |-> <<>>, newSeq |-> <<>>, MVal |-> 0, seqPos |-> 0,
     genomePos |-> POS, TE |-> <<>>, corrected |-> 1, uncorrected |-> 0,
     variant |-> 0, calls |-> 0, ok |-> TRUE]

WalkInit(POS) ==
    [newCIGAR |-> <<>>, newSeq |-> <<>>, MVal |-> 0, seqPos |-> 0,
     genomePos |-> POS, TE |-> <<>>, corrected |-> 0, uncorrected |-> 0,
     variant |-> 0, calls |-> 0, ok |-> TRUE]

\* genome.sequence as called by a stage
StageLookup(st, start, stop, failCall) ==
    LET r == GenomeSequence(start, stop)
    IN  [ok |-> r.ok /\ st.calls + 1 # failCall, seq |-> r.seq]

\* the Match branch shared by the three walks
WalkMatch(st, o, origSeq) ==
    [st EXCEPT !.newSeq = @ \o Slice(origSeq, st.seqPos, st.seqPos + o.ct),
               !.MVal = @ + o.ct, !.seqPos = @ + o.ct, !.genomePos = @ + o.ct]

\* an operation kept as it is, with its read bases
WalkKeepRead(st, o, origSeq) ==
    LET e == EndRun(st)
    IN  [e EXCEPT !.newSeq = @ \o Slice(origSeq, st.seqPos, st.seqPos + o.ct),
                  !.newCIGAR = Append(@, o), !.seqPos = @ + o.ct]

\* an operation kept as it is, advancing the genome position
WalkKeepRef(st, o) ==
    LET e == EndRun(st)
    IN  [e EXCEPT !.genomePos = @ + o.ct, !.newCIGAR = Append(@, o)]

\* the walk of correctInsertions with the variant check made before the
\* size check
InsertionOpVariantFirst(st, o, origSeq, variants, maxLen) ==
    LET ID == <<st.genomePos, st.genomePos + o.ct - 1>>
        currSeq == Slice(origSeq, st.seqPos, st.seqPos + o.ct)
    IN  CASE o.op = "M" -> WalkMatch(st, o, origSeq)
          [] o.op = "I" ->
               IF ID \in DOMAIN variants /\ currSeq \in variants[ID]
               THEN [WalkKeepRead(st, o, origSeq) EXCEPT
                       !.variant = @ + 1,
                       !.TE = Append(@, TEEntry(ID, "Insertion", o.ct,
                                                "Uncorrected", "VariantMatch"))]
               ELSE IF o.ct <= maxLen
               THEN [st EXCEPT
                       !.corrected = @ + 1,
                       !.TE = Append(@, TEEntry(ID, "Insertion", o.ct,
                                                "Corrected", "NA")),
                       !.seqPos = @ + o.ct]
               ELSE [WalkKeepRead(st, o, origSeq) EXCEPT
                       !.uncorrected = @ + 1,
                       !.TE = Append(@, TEEntry(ID, "Insertion", o.ct,
                                                "Uncorrected", "TooLarge"))]
          [] o.op = "S" -> WalkKeepRead(st, o, origSeq)
          [] o.op \in {"N", "H", "D"} -> WalkKeepRef(st, o)
          [] OTHER -> st

InsertionOp(st, o, origSeq, variants, maxLen) ==
    LET ID == <<st.genomePos, st.genomePos + o.ct - 1>>
        currSeq == Slice(origSeq, st.seqPos, st.seqPos + o.ct)
    IN  CASE o.op = "M" -> WalkMatch(st, o, origSeq)
          [] o.op = "I" ->
               IF o.ct <= maxLen
               THEN IF ID \in DOMAIN variants /\ currSeq \in variants[ID]
                    THEN [WalkKeepRead(st, o, origSeq) EXCEPT
                            !.variant = @ + 1,
                            !.TE = Append(@, TEEntry(ID, "Insertion", o.ct,
                                                     "Uncorrected", "VariantMatch"))]
                    ELSE [st EXCEPT
                            !.corrected = @ + 1,
                            !.TE = Append(@, TEEntry(ID, "Insertion", o.ct,
                                                     "Corrected", "NA")),
                            !.seqPos = @ + o.ct]
               ELSE [WalkKeepRead(st, o, origSeq) EXCEPT
                       !.uncorrected = @ + 1,
                       !.TE = Append(@, TEEntry(ID, "Insertion", o.ct,
                                                "Uncorrected", "TooLarge"))]
          [] o.op = "S" -> WalkKeepRead(st, o, origSeq)
          [] o.op \in {"N", "H", "D"} -> WalkKeepRef(st, o)
          [] OTHER -> st

RECURSIVE InsertionWalk(_, _, _, _, _)
InsertionWalk(st, ops, origSeq, variants, maxLen) ==
    IF ops = <<>> THEN st
    ELSE InsertionWalk(InsertionOp(st, Head(ops), origSeq, variants, maxLen),
                       Tail(ops), origSeq, variants, maxLen)

HasOp(CIGAR, kind) == \E i \in 1..Len(CIGAR) : CIGAR[i].op = kind

\* correctInsertions without the return on a CIGAR free of insertions and
\* without the endMatch that follows the loop
correctInsertionsNoSkip(transcript, variants, maxLen, logInfo) ==
    LET st == InsertionWalk(WalkInit(transcript.POS), transcript.CIGAR,
                            transcript.SEQ, variants, maxLen)
        zero == [logInfo EXCEPT !.uncorrected_insertions = 0,
                                !.corrected_insertions = 0,
                                !.variant_insertions = 0]
    IN  [ok |-> TRUE,
         t |-> [transcript EXCEPT !.CIGAR = st.newCIGAR, !.SEQ = st.newSeq],
         TE |-> st.TE,
         logInfo |-> [zero EXCEPT !.uncorrected_insertions = st.uncorrected,
                                  !.corrected_insertions = st.corrected,
                                  !.variant_insertions = st.variant]]

\* correctInsertions(transcript, genome, variants, maxLen, logInfo)
correctInsertions(transcript, variants, maxLen, logInfo) ==
    LET st == EndRun(InsertionWalk(WalkInit(transcript.POS), transcript.CIGAR,
                                   transcript.SEQ, variants, maxLen))
        zero == [logInfo EXCEPT !.uncorrected_insertions = 0,
                                !.corrected_insertions = 0,
                                !.variant_insertions = 0]
    IN  IF ~HasOp(transcript.CIGAR, "I")
        THEN [ok |-> TRUE, t |-> transcript, TE |-> <<>>, logInfo |-> zero]
        ELSE [ok |-> TRUE,
              t |-> [transcript EXCEPT !.CIGAR = st.newCIGAR, !.SEQ = st.newSeq],
              TE |-> st.TE,
              logInfo |-> [zero EXCEPT !.uncorrected_insertions = st.uncorrected,
                                       !.corrected_insertions = st.corrected,
                                       !.variant_insertions = st.variant]]

DeletionOp(st, o, origSeq, variants, maxLen, failCall) ==
    LET ID == <<st.genomePos, st.genomePos + o.ct - 1>>
        look == StageLookup(st, st.genomePos, st.genomePos + o.ct - 1, failCall)
    IN  CASE o.op = "M" -> WalkMatch(st, o, origSeq)
          [] o.op = "D" ->
               IF o.ct <= maxLen
               THEN IF ID \in variants
                    THEN IF ~look.ok THEN [st EXCEPT !.ok = FALSE]
                         ELSE [WalkKeepRef(st, o) EXCEPT
                                 !.calls = @ + 1,
                                 !.variant = @ + 1,
                                 !.TE = Append(@, TEEntry(ID, "Deletion", o.ct,
                                                          "Uncorrected", "VariantMatch"))]
                    ELSE IF ~look.ok
                         THEN [st EXCEPT !.corrected = @ + 1, !.ok = FALSE]
                         ELSE [st EXCEPT
                                 !.calls = @ + 1,
                                 !.corrected = @ + 1,
                                 !.TE = Append(@, TEEntry(ID, "Deletion", o.ct,
                                                          "Corrected", "NA")),
                                 !.newSeq = @ \o look.seq,
                                 !.genomePos = @ + o.ct,
                                 !.MVal = @ + o.ct]
               ELSE [WalkKeepRef(st, o) EXCEPT
                       !.uncorrected = @ + 1,
                       !.TE = Append(@, TEEntry(ID, "Deletion", o.ct,
                                                "Uncorrected", "TooLarge"))]
          [] o.op \in {"S", "I"} -> WalkKeepRead(st, o, origSeq)
          [] o.op \in {"N", "H"} -> WalkKeepRef(st, o)
          [] OTHER -> st

RECURSIVE DeletionWalk(_, _, _, _, _, _)
DeletionWalk(st, ops, origSeq, variants, maxLen, failCall) ==
    IF ops = <<>> \/ ~st.ok THEN st
    ELSE DeletionWalk(DeletionOp(st, Head(ops), origSeq, variants, maxLen, failCall),
                      Tail(ops), origSeq, variants, maxLen, failCall)

\* correctDeletions(transcript, genome, variants, maxLen, logInfo);
\* failTags makes the recomputation of the tags raise
correctDeletions(transcript, variants, maxLen, logInfo, failCall, failTags) ==
    LET w == DeletionWalk(WalkInit(transcript.POS), transcript.CIGAR,
                          transcript.SEQ, variants, maxLen, failCall)
        st == EndRun(w)
        zero == [logInfo EXCEPT !.uncorrected_deletions = 0,
                                !.corrected_deletions = 0,
                                !.variant_deletions = 0]
        counted == [zero EXCEPT !.uncorrected_deletions = w.uncorrected,
                                !.corrected_deletions = w.corrected,
                                !.variant_deletions = w.variant]
        edited == [transcript EXCEPT !.CIGAR = st.newCIGAR, !.SEQ = st.newSeq]
        tags == getNMandMDFlags(edited.POS, edited.CIGAR, edited.SEQ)
    IN  IF ~HasOp(transcript.CIGAR, "D")
        THEN [ok |-> TRUE, t |-> transcript, TE |-> <<>>, logInfo |-> zero]
        ELSE IF ~w.ok
        THEN [ok |-> FALSE, t |-> transcript, TE |-> <<>>, logInfo |-> counted]
        ELSE IF ~tags.ok \/ failTags
        THEN [ok |-> FALSE, t |-> edited, TE |-> <<>>, logInfo |-> counted]
        ELSE [ok |-> TRUE,
              t |-> [edited EXCEPT !.NM = tags.NM, !.MD = tags.MD],
              TE |-> st.TE, logInfo |-> counted]

MismatchOp(st, o, origSeq, variants, failCall) ==
    LET ID == <<st.genomePos>>
        currBase == origSeq[st.seqPos + 1]
        look == StageLookup(st, st.genomePos, st.genomePos + o.ct - 1, failCall)
    IN  CASE o.op = "M" -> WalkMatch(st, o, origSeq)
          [] o.op = "X" ->
               IF st.genomePos \in DOMAIN variants
                  /\ currBase \in variants[st.genomePos]
               THEN [WalkMatch(st, o, origSeq) EXCEPT
                       !.uncorrected = @ + 1,
                       !.TE = Append(@, TEEntry(ID, "Mismatch", o.ct,
                                                "Uncorrected", "VariantMatch"))]
               ELSE IF ~look.ok
                    THEN [st EXCEPT !.corrected = @ + 1, !.ok = FALSE]
                    ELSE [st EXCEPT
                            !.calls = @ + 1,
                            !.corrected = @ + 1,
                            !.TE = Append(@, TEEntry(ID, "Mismatch", o.ct,
                                                     "Corrected", "NA")),
                            !.newSeq = @ \o look.seq,
                            !.seqPos = @ + o.ct,
                            !.genomePos = @ + o.ct,
                            !.MVal = @ + o.ct]
          [] o.op \in {"S", "I"} -> WalkKeepRead(st, o, origSeq)
          [] o.op \in {"N", "H", "D"} -> WalkKeepRef(st, o)
          [] OTHER -> st

RECURSIVE MismatchWalk(_, _, _, _, _)
MismatchWalk(st, ops, origSeq, variants, failCall) ==
    IF ops = <<>> \/ ~st.ok THEN st
    ELSE MismatchWalk(MismatchOp(st, Head(ops), origSeq, variants, failCall),
                      Tail(ops), origSeq, variants, failCall)

\* correctMismatches(transcript, genome, variants, logInfo)
correctMismatches(transcript, variants, logInfo, failCall, failTags) ==
    LET merged == mergeMDwithCIGAR(transcript.CIGAR, transcript.MD)
        w == MismatchWalk(WalkInit(transcript.POS), merged.ops,
                          transcript.SEQ, variants, failCall)
        st == EndRun(w)
        zero == [logInfo EXCEPT !.uncorrected_mismatches = 0,
                                !.corrected_mismatches = 0]
        counted == [zero EXCEPT !.uncorrected_mismatches = w.uncorrected,
                                !.corrected_mismatches = w.corrected]
        edited == [transcript EXCEPT !.CIGAR = st.newCIGAR, !.SEQ = st.newSeq]
        tags == getNMandMDFlags(edited.POS, edited.CIGAR, edited.SEQ)
    IN  IF ~HasLetters(transcript.MD)
        THEN [ok |-> TRUE, t |-> transcript, TE |-> <<>>, logInfo |-> zero]
        ELSE IF ~merged.ok
        THEN [ok |-> FALSE, t |-> transcript, TE |-> <<>>, logInfo |-> zero]
        ELSE IF ~w.ok
        THEN [ok |-> FALSE, t |-> transcript, TE |-> <<>>, logInfo |-> counted]
        ELSE IF ~tags.ok \/ failTags
        THEN [ok |-> FALSE, t |-> edited, TE |-> <<>>, logInfo |-> counted]
        ELSE [ok |-> TRUE,
              t |-> [edited EXCEPT !.NM = tags.NM, !.MD = tags.MD],
              TE |-> st.TE, logInfo |-> counted]

(***************************************************************************)
(* Splice junctions.  A junction object holds its two IntronBound          *)
(* positions b0 (first intron base) and b1 (last intron base), the         *)
(* junction's own start and end, and its canonical flag.  The junction     *)
(* objects live in one list that every copy of a transcript shares.        *)
(***************************************************************************)
Junction(b0, b1, canonical) ==
    [b0 |-> b0, b1 |-> b1, start |-> b0, end |-> b1, isCanonical |-> canonical]

\* SpliceJunction.checkSpliceMotif: the intron starts with GT and ends with
\* AG; ok = FALSE when a boundary lies outside the chromosome
checkSpliceMotif(start, end) ==
    LET a == GenomeSequence(start, start + 1)
        b == GenomeSequence(end - 1, end)
    IN  [ok |-> a.ok /\ b.ok,
         isCanonical |-> a.ok /\ b.ok /\ a.seq = <<"G", "T">> /\ b.seq = <<"A", "G">>]

\* Transcript.recheckCanonical(): every junction is canonical
recheckCanonical(jns) == \A i \in 1..Len(jns) : jns[i].isCanonical

RECURSIVE JunctionsOf(_, _)
\* the junctions a Transcript derives from the Skip operations of its CIGAR
JunctionsOf(cigar, genomePos) ==
    IF cigar = <<>> THEN <<>>
    ELSE LET o == Head(cigar)
         IN  IF o.op = "N"
             THEN <<Junction(genomePos, genomePos + o.ct - 1,
                             checkSpliceMotif(genomePos, genomePos + o.ct - 1).isCanonical)>>
                  \o JunctionsOf(Tail(cigar), genomePos + o.ct)
             ELSE JunctionsOf(Tail(cigar),
                              IF o.op \in {"M", "D"} THEN genomePos + o.ct ELSE genomePos)

\* find_closest_bound: the signed distance from pos to the closest reference
\* position, the one with the lower coordinate first on a tie
find_closest_bound(pos, ref_bounds) ==
    LET best == CHOOSE r \in ref_bounds :
                    \A q \in ref_bounds :
                        abs(r - pos) < abs(q - pos)
                        \/ (abs(r - pos) = abs(q - pos) /\ r <= q)
    IN  best - pos

\* the two magnitudes always added
combinedJunctionDistSum(dist_0, dist_1) == abs(dist_0) + abs(dist_1)

combinedJunctionDist(dist_0, dist_1) ==
    IF dist_0 * dist_1 <= 0
    THEN abs(dist_0) + abs(dist_1)
    ELSE abs(abs(dist_0) - abs(dist_1))

\* the test with ">=" on the combined distance
TooFarAtMaxDist(combined_dist, donor_dist, acceptor_dist, maxDist) ==
    combined_dist >= maxDist \/ abs(donor_dist) > 2 * maxDist
                             \/ abs(acceptor_dist) > 2 * maxDist

\* the test of attempt_jn_correction that gives up on a junction
TooFarFromAnnotJn(combined_dist, donor_dist, acceptor_dist, maxDist) ==
    combined_dist > maxDist \/ abs(donor_dist) > 2 * maxDist
                            \/ abs(acceptor_dist) > 2 * maxDist

GroupOp(g, o, seq) ==
    IF o.op = "N"
    THEN [g EXCEPT !.exonSeqs = Append(@, g.currExonStr),
                   !.intronCIGARs = Append(@, o.ct),
                   !.exonCIGARs = Append(@, g.currExonCIGAR),
                   !.currExonStr = <<>>, !.currExonCIGAR = <<>>]
    ELSE IF o.op \in {"M", "S", "I"}
    THEN [g EXCEPT !.currExonStr = @ \o Slice(seq, g.currSeqIndex, g.currSeqIndex + o.ct),
                   !.currExonCIGAR = Append(@, o),
                   !.currSeqIndex = @ + o.ct]
    ELSE [g EXCEPT !.currExonCIGAR = Append(@, o)]

RECURSIVE GroupWalk(_, _, _)
GroupWalk(g, cigar, seq) ==
    IF cigar = <<>> THEN g ELSE GroupWalk(GroupOp(g, Head(cigar), seq), Tail(cigar), seq)

group_CIGAR_by_exon_and_intron(CIGAR, seq) ==
    LET g == GroupWalk([currExonStr |-> <<>>, currExonCIGAR |-> <<>>,
                        currSeqIndex |-> 0, exonSeqs |-> <<>>,
                        exonCIGARs |-> <<>>, intronCIGARs |-> <<>>], CIGAR, seq)
    IN  [exonCIGARs |-> Append(g.exonCIGARs, g.currExonCIGAR),
         intronCIGARs |-> g.intronCIGARs,
         exonSeqs |-> Append(g.exonSeqs, g.currExonStr)]

Reverse(s) == [i \in 1..Len(s) |-> s[Len(s) + 1 - i]]

\* the loop of editExonCIGAR deleting the whole first operation
TrimOpsWholeRun(ops, n) == IF ops = <<>> THEN <<>> ELSE Tail(ops)

RECURSIVE TrimOps(_, _)
\* the loop of editExonCIGAR that deletes n > 0 bases from the front of ops
TrimOps(ops, n) ==
    IF ops = <<>> THEN <<>>
    ELSE LET remainder == Head(ops).ct - n
         IN  IF remainder > 0 THEN <<Tok(Head(ops).op, remainder)>> \o Tail(ops)
             ELSE IF remainder = 0 THEN Tail(ops)
             ELSE TrimOps(Tail(ops), 0 - remainder)

\* editExonCIGAR(exon, side, nBases): side 0 edits the start of the exon,
\* side -1 its end; ok = FALSE when operations[0] does not exist
editExonCIGAR(exon, side, nBases) ==
    LET ops == IF side = -1 THEN Reverse(exon) ELSE exon
        new == IF nBases >= 0
               THEN IF Head(ops).op = "M"
                    THEN <<Tok("M", Head(ops).ct + nBases)>> \o Tail(ops)
                    ELSE <<Tok("M", nBases)>> \o ops
               ELSE TrimOps(ops, 0 - nBases)
    IN  IF nBases >= 0 /\ ops = <<>>
        THEN [ok |-> FALSE, exon |-> exon]
        ELSE [ok |-> TRUE, exon |-> IF side = -1 THEN Reverse(new) ELSE new]

RECURSIVE PasteCIGAR(_, _, _)
\* exonCIGARs[i] + str(intronCIGARs[i]) + "N" for every intron, then the
\* last exon
PasteCIGAR(exonCIGARs, intronCIGARs, i) ==
    IF i > Len(intronCIGARs) THEN exonCIGARs[Len(exonCIGARs)]
    ELSE exonCIGARs[i] \o <<Tok("N", intronCIGARs[i])>>
         \o PasteCIGAR(exonCIGARs, intronCIGARs, i + 1)

RECURSIVE Join(_, _)
Join(seqs, i) == IF i > Len(seqs) THEN <<>> ELSE seqs[i] \o Join(seqs, i + 1)

\* the reference bases fix_one_side_of_junction adds to the exon
RefAdd(bound, pos, d) ==
    IF bound = 0
    THEN GenomeSequence(pos, pos - 1 + d)
    ELSE GenomeSequence(pos + 1 - abs(d), pos)

\* fix_one_side_of_junction after the lookup of the reference bases (refAdd)
\* and the edit of the CIGAR of the target exon (edit)
FixTargetExon(bound, pos, d, seq, oldCIGAR, failLookup, g, targetExon, refAdd, edit) ==
    LET exon == g.exonSeqs[targetExon]
        intron == targetExon - bound
        newExon == IF bound = 0
                   THEN IF d > 0 THEN exon \o refAdd.seq ELSE DropLast(exon, 0 - d)
                   ELSE IF d < 0 THEN refAdd.seq \o exon ELSE DropFirst(exon, d)
        newIntron == IF bound = 0 THEN g.intronCIGARs[intron] - d
                     ELSE g.intronCIGARs[intron] + d
    IN  IF ((bound = 0 /\ d > 0) \/ (bound = 1 /\ d < 0)) /\ (~refAdd.ok \/ failLookup)
        THEN [ok |-> FALSE, SEQ |-> seq, CIGAR |-> oldCIGAR, pos |-> pos]
        ELSE IF ~edit.ok
        THEN [ok |-> FALSE, SEQ |-> seq, CIGAR |-> oldCIGAR, pos |-> pos + d]
        ELSE [ok |-> TRUE,
              SEQ |-> Join([g.exonSeqs EXCEPT ![targetExon] = newExon], 1),
              CIGAR |-> PasteCIGAR([g.exonCIGARs EXCEPT ![targetExon] = edit.exon],
                                   [g.intronCIGARs EXCEPT ![intron] = newIntron], 1),
              pos |-> pos + d]

\* fix_one_side_of_junction after group_CIGAR_by_exon_and_intron (g)
FixGrouped(bound, pos, d, seq, oldCIGAR, failLookup, g, targetExon) ==
    FixTargetExon(bound, pos, d, seq, oldCIGAR, failLookup, g, targetExon,
                  RefAdd(bound, pos, d),
                  editExonCIGAR(g.exonCIGARs[targetExon],
                                IF bound = 0 THEN -1 ELSE 0,
                                IF bound = 0 THEN d ELSE 0 - d))

\* fix_one_side_of_junction: jn_number counts from 0; bound is 0 for the
\* intron start and 1 for the intron end, pos the position of that bound.
\* pos in the result is intronBound.pos as the call leaves it, also when
\* the call raises (ok = FALSE); failLookup makes genome.sequence raise
fix_one_side_of_junction(jn_number, bound, pos, d, seq, oldCIGAR, failLookup) ==
    IF d = 0 THEN [ok |-> TRUE, SEQ |-> seq, CIGAR |-> oldCIGAR, pos |-> pos]
    ELSE FixGrouped(bound, pos, d, seq, oldCIGAR, failLookup,
                    group_CIGAR_by_exon_and_intron(oldCIGAR, seq),
                    jn_number + 1 + bound)

\* the annotated splice donors and acceptors of the "+" strand
Donors(annot) == {a[1] : a \in annot}

Acceptors(annot) == {a[2] : a \in annot}

\* the reference lookup or recomputation that the fault plan makes raise
FaultAt(fault, site, k) == fault.site = site /\ fault.k = k

\* update_post_ncsj_correction after checkSpliceMotif (motif) and
\* getNMandMDFlags (tags)
PostUpdate(t, moved, jnIdx, failTags, motif, tags) ==
    IF ~motif.ok THEN [ok |-> FALSE, t |-> t, jns |-> moved]
    ELSE IF ~tags.ok \/ failTags
    THEN [ok |-> FALSE, t |-> t,
          jns |-> [moved EXCEPT ![jnIdx].isCanonical = motif.isCanonical]]
    ELSE [ok |-> TRUE,
          t |-> [t EXCEPT !.NM = tags.NM, !.MD = tags.MD,
                          !.isCanonical =
                              recheckCanonical([moved EXCEPT ![jnIdx].isCanonical =
                                                                 motif.isCanonical])],
          jns |-> [moved EXCEPT ![jnIdx].isCanonical = motif.isCanonical]]

\* update_post_ncsj_correction on junction jnIdx of the shared list
update_post_ncsj_correction(t, jns, jnIdx, failTags) ==
    PostUpdate(t,
               [jns EXCEPT ![jnIdx].start = jns[jnIdx].b0, ![jnIdx].end = jns[jnIdx].b1],
               jnIdx, failTags,
               checkSpliceMotif(jns[jnIdx].b0, jns[jnIdx].b1),
               getNMandMDFlags(t.POS, t.CIGAR, t.SEQ))

\* what attempt_jn_correction returns and leaves behind: the three values
\* returned, the copy t and the junction objects; ds are the two distances
JnResult(status, reason, ds, t, jns) ==
    [raised |-> FALSE, status |-> status, reason |-> reason,
     dist |-> ds.combined_dist, dist_0 |-> ds.dist_0, dist_1 |-> ds.dist_1,
     t |-> t, jns |-> jns]

\* attempt_jn_correction after update_post_ncsj_correction (u)
JnUpdated(t, ds, u) ==
    IF ~u.ok THEN JnResult(FALSE, "Other", ds, t, u.jns)
    ELSE JnResult(TRUE, "NA", ds, u.t, u.jns)

\* attempt_jn_correction after the fix of the acceptor side (a)
JnAcceptorFixed(t, jnsA, jnIdx, ds, fault, a) ==
    IF ~a.ok THEN JnResult(FALSE, "Other", ds, t, jnsA)
    ELSE JnUpdated(t, ds,
                   update_post_ncsj_correction([t EXCEPT !.SEQ = a.SEQ, !.CIGAR = a.CIGAR],
                                               jnsA, jnIdx,
                                               FaultAt(fault, "sj_update", jnIdx)))

\* the acceptor bound takes the position the fix left
JnFixAcceptor(t, jnsD, jnIdx, ds, fault, a) ==
    JnAcceptorFixed(t, [jnsD EXCEPT ![jnIdx].b1 = a.pos], jnIdx, ds, fault, a)

\* attempt_jn_correction after the fix of the donor side (d)
JnDonorFixed(t, jnsD, jnIdx, ds, fault, d) ==
    IF ~d.ok THEN JnResult(FALSE, "Other", ds, t, jnsD)
    ELSE JnFixAcceptor(t, jnsD, jnIdx, ds, fault,
                       fix_one_side_of_junction(jnIdx - 1, 1, jnsD[jnIdx].b1, ds.dist_1,
                                                d.SEQ, d.CIGAR,
                                                FaultAt(fault, "sj_acceptor", jnIdx)))

\* the donor bound takes the position the fix left
JnFixDonor(t, jns, jnIdx, ds, fault, d) ==
    JnDonorFixed(t, [jns EXCEPT ![jnIdx].b0 = d.pos], jnIdx, ds, fault, d)

\* attempt_jn_correction once the closest reference junction is found
JnClosest(t, jns, jnIdx, maxDist, fault, ds) ==
    IF TooFarFromAnnotJn(ds.combined_dist, ds.dist_0, ds.dist_1, maxDist)
    THEN JnResult(FALSE, "TooFarFromAnnotJn", ds, t, jns)
    ELSE JnFixDonor(t, jns, jnIdx, ds, fault,
                    fix_one_side_of_junction(jnIdx - 1, 0, jns[jnIdx].b0, ds.dist_0,
                                             t.SEQ, t.CIGAR,
                                             FaultAt(fault, "sj_donor", jnIdx)))

\* the distances of find_closest_ref_junction and their combination
JnDistances(donor_dist, acceptor_dist) ==
    [dist_0 |-> donor_dist, dist_1 |-> acceptor_dist,
     combined_dist |-> combinedJunctionDist(donor_dist, acceptor_dist)]

\* attempt_jn_correction on the copy t; jnIdx counts from 1.  raised = TRUE
\* when the search for the closest reference junction raises, which the
\* function does not catch
attempt_jn_correction(t, jns, jnIdx, annot, maxDist, fault) ==
    IF FaultAt(fault, "sj_closest", jnIdx)
    THEN [raised |-> TRUE, status |-> FALSE, reason |-> "NA", dist |-> 0,
          dist_0 |-> 0, dist_1 |-> 0, t |-> t, jns |-> jns]
    ELSE JnClosest(t, jns, jnIdx, maxDist, fault,
                   JnDistances(find_closest_bound(jns[jnIdx].b0, Donors(annot)),
                               find_closest_bound(jns[jnIdx].b1, Acceptors(annot))))

(***************************************************************************)
(* Input records, references and policies.                                 *)
(***************************************************************************)
Alt(b) == CASE b = "A" -> "C" [] b = "C" -> "G" [] b = "G" -> "T" [] OTHER -> "A"

RECURSIVE RefRead(_, _, _)
\* the read that matches the reference along cigar from genomePos, with the
\* inserted and soft-clipped bases all equal to fill
RefRead(cigar, genomePos, fill) ==
    IF cigar = <<>> THEN <<>>
    ELSE LET o == Head(cigar)
         IN  CASE o.op = "M" ->
                    [i \in 1..o.ct |-> GenomeBase(genomePos + i - 1)]
                    \o RefRead(Tail(cigar), genomePos + o.ct, fill)
               [] o.op \in {"I", "S"} ->
                    Rep(fill, o.ct) \o RefRead(Tail(cigar), genomePos, fill)
               [] o.op \in {"D", "N"} -> RefRead(Tail(cigar), genomePos + o.ct, fill)
               [] OTHER -> RefRead(Tail(cigar), genomePos, fill)

RECURSIVE MatchIdx(_, _)
\* the read indices (from 1) aligned by a Match run
MatchIdx(cigar, seqPos) ==
    IF cigar = <<>> THEN {}
    ELSE LET o == Head(cigar)
         IN  CASE o.op = "M" ->
                    (seqPos + 1)..(seqPos + o.ct) \cup MatchIdx(Tail(cigar), seqPos + o.ct)
               [] o.op \in {"I", "S"} -> MatchIdx(Tail(cigar), seqPos + o.ct)
               [] OTHER -> MatchIdx(Tail(cigar), seqPos)

\* the read with the bases at the indices mm substituted
Mutate(seq, mm) == [i \in 1..Len(seq) |-> IF i \in mm THEN Alt(seq[i]) ELSE seq[i]]

\* the Transcript object built from a SAM line whose tags agree with its
\* alignment, and the junction objects it creates
Transcript(cigar, POS, seq) ==
    LET tags == getNMandMDFlags(POS, cigar, seq)
        jns == JunctionsOf(cigar, POS)
    IN  [t |-> [SEQ |-> seq, CIGAR |-> cigar, POS |-> POS, NM |-> tags.NM,
                MD |-> tags.MD, isCanonical |-> recheckCanonical(jns)],
         jns |-> jns]

Runs == 1..MaxCt

\* CIGAR strings of unspliced records
UnsplicedCigars ==
    {<<Tok("M", 4)>>, <<Tok("H", 1), Tok("M", 3)>>, <<Tok("S", 1), Tok("M", 3)>>}
    \cup {<<Tok("M", 2), Tok(k, c), Tok("M", 2)>> : k \in {"I", "D"}, c \in Runs}
    \cup {<<Tok(e, 1), Tok("M", 2), Tok(k, c), Tok("M", 2)>> :
             e \in {"S", "H"}, k \in {"I", "D"}, c \in Runs}
    \cup {<<Tok("M", 2), Tok(k, c), Tok("M", 1), Tok(l, MaxCt), Tok("M", 1)>> :
             k \in {"I", "D"}, l \in {"I", "D"}, c \in Runs}
    \cup {<<Tok("M", 2), Tok("I", c), Tok("D", 1), Tok("M", 2), Tok("H", 1)>> : c \in Runs}
    \cup {<<Tok("M", 1), Tok(k, c), Tok(IF k = "I" THEN "D" ELSE "I", 1),
            Tok(k, MaxCt), Tok("M", 1)>> : k \in {"I", "D"}, c \in Runs}

Shifts == (0 - MaxShift)..MaxShift

\* CIGAR strings of spliced records: the reference introns are 4..8 and
\* 12..16; d0 and d1 displace the observed boundaries
SplicedCigars ==
    {<<Tok("M", 3 + d0), Tok("N", 5 + d1 - d0), Tok("M", 3 - d1)>> :
        d0 \in {d \in Shifts : 3 + d > 0}, d1 \in {d \in Shifts : 3 - d > 0 /\ 2 + d > 0}}
    \cup {<<Tok("M", 3 + d0), Tok("N", 5 - d0), Tok("M", 3 + d1), Tok("N", 5 - d1),
            Tok("M", 3)>> :
        d0 \in {d \in Shifts : 3 + d > 0}, d1 \in {d \in Shifts : 3 + d > 0 /\ 5 - d > 0}}
    \cup {<<Tok("M", 2), Tok("I", 1), Tok("M", 1 + d0), Tok("N", 5 - d0), Tok("M", 1),
            Tok("D", 1), Tok("M", 1)>> : d0 \in {0, 1}}
    \cup {<<Tok("M", IF k = "I" THEN 4 ELSE 3), Tok(k, 1), Tok("M", 1), Tok("N", 3),
            Tok("M", 3)>> : k \in {"I", "D"}}
    \cup {<<Tok("M", 3), Tok("N", 3), Tok("M", 1), Tok(k, 1), Tok("M", 2)>> :
             k \in {"I", "D"}}

Fills == {"T", "A"}

\* sets of at most one mismatching read index
MismatchSets(cigar) == {{}} \cup {{i} : i \in MatchIdx(cigar, 0)}

\* spliced records mismatch at most at the last base of their first exon
SplicedMismatchSets(cigar) == {{}, {Head(cigar).ct}}

\* the records read at position 1 with CIGAR c
RecordsOf(c, mismatches) ==
    {[cigar |-> c, seq |-> Mutate(RefRead(c, 1, f), mm)] : f \in Fills, mm \in mismatches}

UnsplicedRecords == UNION {RecordsOf(c, MismatchSets(c)) : c \in UnsplicedCigars}

SplicedRecords == UNION {RecordsOf(c, SplicedMismatchSets(c)) : c \in SplicedCigars}

NoVariants == [snps |-> <<>>, insertions |-> <<>>, deletions |-> {}]

\* variant catalogs: substitutions at positions 1 and 2, insertions and
\* deletions starting at positions 3 and 4
Catalogs ==
    {NoVariants}
    \cup {[NoVariants EXCEPT !.snps = (p :> {a})] :
             p \in 1..2, a \in {"C", "G"}}
    \cup {[NoVariants EXCEPT !.insertions = (<<g, g + c - 1>> :> {Rep("T", c)})] :
             g \in {3, 4}, c \in Runs}
    \cup {[NoVariants EXCEPT !.deletions = {<<g, g + c - 1>>}] :
             g \in {3, 4}, c \in Runs}
    \cup {[snps |-> (2 :> {"C", "G"}),
           insertions |-> (<<3, 3>> :> {<<"T">>, <<"A">>}),
           deletions |-> {<<3, 3>>, <<4, 4>>}]}

\* splice annotations: sets of annotated junctions <<start, end>>
Annotations ==
    {{}, {<<4, 8>>}, {<<4, 8>>, <<12, 16>>}, {<<5, 8>>, <<12, 15>>}}

Options(mm, indel, sj, maxLenIndel, maxSJOffset) ==
    [mismatchCorrection |-> mm, indelCorrection |-> indel, sjCorrection |-> sj,
     maxLenIndel |-> maxLenIndel, maxSJOffset |-> maxSJOffset]

Fault(site, k) == [site |-> site, k |-> k]

NoFault == Fault("none", 0)

\* failures of a reference lookup or of a tag recomputation in the
\* mismatch and deletion stages
StageFaults ==
    {Fault("mm_lookup", 1), Fault("mm_tags", 0),
     Fault("del_lookup", 1), Fault("del_tags", 0)}

\* failures inside the splice junction stage, at junction k
JunctionFaults ==
    {Fault(site, k) : site \in {"sj_closest", "sj_donor", "sj_acceptor", "sj_update"},
                      k \in 1..2}

\* a record is paired with the catalogs that can bear on it, and a record
\* that has nothing to correct with every catalog
CatalogsFor(r) ==
    LET t == Transcript(r.cigar, 1, r.seq).t
        mismatch == \E i \in 1..Len(t.MD) : t.MD[i].t = "x"
        ins == HasOp(r.cigar, "I")
        del == HasOp(r.cigar, "D")
    IN  IF t.NM = 0 THEN Catalogs
        ELSE {v \in Catalogs :
                 \/ v = NoVariants
                 \/ /\ DOMAIN v.snps # {} => mismatch
                    /\ DOMAIN v.insertions # {} => ins
                    /\ v.deletions # {} => del}

\* a spliced record that mismatches at the end of its first exon is paired
\* with the catalog of that substitution as well
SplicedCatalogsFor(r) ==
    LET g == Head(r.cigar).ct
    IN  {NoVariants}
        \cup (IF r.seq[g] # GenomeBase(g)
              THEN {[NoVariants EXCEPT !.snps = (g :> {r.seq[g]})]}
              ELSE {})

\* policies and fault plans: a fault is planned under the full policy
Runs1(faults, sj) ==
    {[options |-> Options(TRUE, TRUE, TRUE, MaxLenIndelOpt, MaxSJOffsetOpt),
      fault |-> f] : f \in faults}
    \cup {[options |-> Options(mm, indel, s, n, m), fault |-> NoFault] :
             mm \in BOOLEAN, indel \in BOOLEAN, s \in sj,
             n \in 0..MaxLenIndelOpt, m \in 0..MaxSJOffsetOpt}

UnsplicedRuns ==
    {q \in Runs1(StageFaults, {TRUE}) : q.options.maxSJOffset = MaxSJOffsetOpt}

SplicedRuns ==
    {q \in Runs1(JunctionFaults, BOOLEAN) :
        /\ q.options.mismatchCorrection /\ q.options.indelCorrection
        /\ q.options.maxLenIndel \in {0, MaxLenIndelOpt}
        /\ ~q.options.sjCorrection => q.options.maxSJOffset = 0}

Input(r, v, a, o) ==
    [rec |-> r, variants |-> v, annot |-> a, options |-> o.options, fault |-> o.fault]

\* in is an unspliced record with a catalog, a policy and a fault plan
UnsplicedInput(in) ==
    \E r \in UnsplicedRecords :
        \E v \in CatalogsFor(r), o \in UnsplicedRuns :
            in = Input(r, v, {<<4, 8>>}, o)

\* in is a spliced record with a splice annotation, a policy and a fault plan,
\* or a record whose intron 9..9 is one base long, between an annotated
\* acceptor and an annotated donor
SplicedInput(in) ==
    \/ \E r \in SplicedRecords :
          \E v \in SplicedCatalogsFor(r), a \in Annotations, o \in SplicedRuns :
              in = Input(r, v, a, o)
    \/ \E r \in RecordsOf(<<Tok("M", 8), Tok("N", 1), Tok("M", 3)>>, {{}}) :
          \E a \in {{<<4, 8>>, <<10, 16>>}, {<<4, 9>>, <<10, 16>>}}, o \in SplicedRuns :
              in = Input(r, NoVariants, a, o)

(***************************************************************************)
(* correct_transcript as a state machine.  orig is the Transcript object   *)
(* built by transcript_init, upd the copy under correction; jns is the     *)
(* list of junction objects both refer to; logInfo is the one log object   *)
(* (upd_logInfo is the same object); pc is the statement reached.          *)
(***************************************************************************)
VARIABLES pc, input, orig, upd, jns, logInfo, TE_entries, sjTE, jn, ret,
          warned, stages, last, dist,
          cigarText, validity,
          sam_lines, n_cpus, sam_chunks, processes, mainpc, exited, joined,
          sam_transcripts, primaryOnly, batch_n, idx, counter, buffers, outfiles,
          results, bpc

\* the state of correct_transcript
recordVars == <<pc, input, orig, upd, jns, logInfo, TE_entries, sjTE, jn, ret,
                warned, stages, last, dist>>

\* the argument and the result of check_CIGAR_validity
cigarVars == <<cigarText, validity>>

\* the state of main: the records read, the number of workers, the chunks
\* of split_input, the chunks handed to the workers started, the statement
\* reached, the workers that have ended in the order they ended, the number
\* of workers main has joined
mainVars == <<sam_lines, n_cpus, sam_chunks, processes, mainpc, exited, joined>>

\* the state of batch_correct: the shard, the options (batch_n is the
\* parameter n), the loop position and
\* the counter, the four line buffers, the four output files, the values
\* correct_transcript returned, the statement reached
batchVars == <<sam_transcripts, primaryOnly, batch_n, idx, counter, buffers, outfiles,
               results, bpc>>

\* the state outside correct_transcript
outer == <<cigarVars, mainVars, batchVars>>

vars == <<recordVars, outer>>

NoValidity == [returned |-> FALSE, value |-> FALSE]

\* check_CIGAR_validity is not running
CigarIdle ==
    /\ cigarText = <<>>
    /\ validity = NoValidity

\* main is not running
MainIdle ==
    /\ sam_lines = <<>>
    /\ n_cpus = 1
    /\ sam_chunks = <<>>
    /\ processes = <<>>
    /\ mainpc = "idle"
    /\ exited = <<>>
    /\ joined = 0

\* four empty lists of lines: sam, fasta, log and TElog
NoLines == [sam |-> <<>>, fasta |-> <<>>, log |-> <<>>, TElog |-> <<>>]

\* batch_correct is not running
BatchIdle ==
    /\ sam_transcripts = <<>>
    /\ primaryOnly = FALSE
    /\ batch_n = 0
    /\ idx = 1
    /\ counter = 0
    /\ buffers = NoLines
    /\ outfiles = NoLines
    /\ results = <<>>
    /\ bpc = "idle"

\* nothing outside correct_transcript is running
Idle == CigarIdle /\ MainIdle /\ BatchIdle

NoReturn ==
    [transcript |-> [SEQ |-> <<>>, CIGAR |-> <<>>, POS |-> 0, NM |-> 0,
                     MD |-> <<>>, isCanonical |-> TRUE],
     logInfo |-> init_log_info, TE_entries |-> <<>>, rolledBack |-> FALSE]

NoStage ==
    [stage |-> "none", pre |-> NoReturn.transcript, preJns |-> <<>>, TE |-> <<>>,
     ok |-> TRUE]

\* the offsets of the junction attempted last and their combination
NoDist == [jn |-> 0, dist_0 |-> 0, dist_1 |-> 0, combined_dist |-> 0, done |-> FALSE]

Start ==
    /\ orig = Transcript(input.rec.cigar, 1, input.rec.seq).t
    /\ upd = orig
    /\ jns = Transcript(input.rec.cigar, 1, input.rec.seq).jns
    /\ logInfo = init_log_info
    /\ TE_entries = <<>>
    /\ sjTE = <<>>
    /\ jn = 0
    /\ ret = NoReturn
    /\ warned = 0
    /\ stages = <<>>
    /\ last = NoStage

Init ==
    /\ UnsplicedInput(input) \/ SplicedInput(input)
    /\ Start
    /\ pc = "mismatch"
    /\ dist = NoDist
    /\ Idle

\* the except clause without its "TE_entries = []"
KeepEntries(entries) == entries

\* "TE_entries = []" in the except clause of correct_transcript
DiscardEntries(entries) == <<>>

\* the except clause of correct_transcript: one warning, the entries
\* emptied, the original Transcript object and the log object returned
Rollback(log) ==
    /\ pc' = "done"
    /\ warned' = warned + 1
    /\ TE_entries' = DiscardEntries(TE_entries)
    /\ logInfo' = log
    /\ ret' = [transcript |-> orig, logInfo |-> log,
               TE_entries |-> DiscardEntries(TE_entries), rolledBack |-> TRUE]

\* the insertion stage left out
AfterMismatchSkipsInsertion(options) ==
    IF options.indelCorrection THEN "deletion" ELSE "sj"

\* the statement that follows each stage
AfterMismatch(options) == IF options.indelCorrection THEN "insertion" ELSE "sj"

AfterInsertion == "deletion"

AfterDeletion == "sj"

Ran(stage, pre, r) ==
    /\ stages' = Append(stages, stage)
    /\ last' = [stage |-> stage, pre |-> pre, preJns |-> jns, TE |-> r.TE, ok |-> r.ok]

\* a stage that returned: its edits and entries are kept
Completed(r, next) ==
    /\ pc' = next
    /\ upd' = r.t
    /\ logInfo' = r.logInfo
    /\ TE_entries' = TE_entries \o r.TE
    /\ UNCHANGED <<ret, warned>>

CorrectMismatches ==
    /\ pc = "mismatch"
    /\ IF input.options.mismatchCorrection
       THEN LET r == correctMismatches(upd, input.variants.snps, logInfo,
                                       IF input.fault.site = "mm_lookup"
                                       THEN input.fault.k ELSE 0,
                                       input.fault.site = "mm_tags")
            IN  /\ Ran("Mismatch", upd, r)
                /\ IF r.ok THEN Completed(r, AfterMismatch(input.options))
                   ELSE Rollback(r.logInfo) /\ upd' = r.t
       ELSE /\ pc' = AfterMismatch(input.options)
            /\ UNCHANGED <<upd, logInfo, TE_entries, ret, warned, stages, last>>
    /\ UNCHANGED <<input, orig, jns, sjTE, jn, dist>>
    /\ UNCHANGED outer

CorrectInsertions ==
    /\ pc = "insertion"
    /\ LET r == correctInsertions(upd, input.variants.insertions,
                                  input.options.maxLenIndel, logInfo)
       IN  Ran("Insertion", upd, r) /\ Completed(r, AfterInsertion)
    /\ UNCHANGED <<input, orig, jns, sjTE, jn, dist>>
    /\ UNCHANGED outer

CorrectDeletions ==
    /\ pc = "deletion"
    /\ LET r == correctDeletions(upd, input.variants.deletions,
                                 input.options.maxLenIndel, logInfo,
                                 IF input.fault.site = "del_lookup"
                                 THEN input.fault.k ELSE 0,
                                 input.fault.site = "del_tags")
       IN  /\ Ran("Deletion", upd, r)
           /\ IF r.ok THEN Completed(r, AfterDeletion)
              ELSE Rollback(r.logInfo) /\ upd' = r.t
    /\ UNCHANGED <<input, orig, jns, sjTE, jn, dist>>
    /\ UNCHANGED outer

\* the guard of the junction stage and the start of cleanNoncanonical
CleanNoncanonical ==
    /\ pc = "sj"
    /\ IF input.annot # {} /\ input.options.sjCorrection
       THEN /\ logInfo' = [logInfo EXCEPT !.corrected_NC_SJs = 0,
                                          !.uncorrected_NC_SJs = 0]
            /\ stages' = Append(stages, "NC_SJ_boundary")
            /\ last' = [stage |-> "NC_SJ_boundary", pre |-> upd, preJns |-> jns,
                        TE |-> <<>>, ok |-> TRUE]
            /\ sjTE' = <<>>
            /\ IF upd.isCanonical
               THEN pc' = "return" /\ jn' = jn
               ELSE pc' = "jn" /\ jn' = 1
       ELSE /\ pc' = "return"
            /\ UNCHANGED <<logInfo, stages, last, sjTE, jn>>
    /\ UNCHANGED <<input, orig, upd, jns, TE_entries, ret, warned, dist>>
    /\ UNCHANGED outer

\* the loop of cleanNoncanonical moves to the next junction or ends; at
\* the end the entries of the stage are appended
NextJunction(entries) ==
    /\ sjTE' = entries
    /\ IF jn = Len(jns)
       THEN /\ pc' = "return"
            /\ TE_entries' = TE_entries \o entries
            /\ jn' = jn
       ELSE /\ pc' = "jn"
            /\ TE_entries' = TE_entries
            /\ jn' = jn + 1
    /\ UNCHANGED <<ret, warned>>

\* the iteration with the entry appended for a corrected junction only
AttemptLogsCorrected(r, entry) ==
    IF r.raised
    THEN /\ Rollback(logInfo)
         /\ last' = [stage |-> "NC_SJ_boundary", pre |-> upd, preJns |-> jns,
                     TE |-> <<>>, ok |-> FALSE]
         /\ UNCHANGED <<upd, jns, sjTE, jn, dist>>
    ELSE /\ upd' = IF r.status THEN r.t ELSE upd
         /\ dist' = [jn |-> jn, dist_0 |-> r.dist_0, dist_1 |-> r.dist_1,
                     combined_dist |-> r.dist, done |-> TRUE]
         /\ jns' = r.jns
         /\ logInfo' = IF r.status
                       THEN [logInfo EXCEPT !.corrected_NC_SJs = @ + 1]
                       ELSE [logInfo EXCEPT !.uncorrected_NC_SJs = @ + 1]
         /\ last' = [stage |-> "NC_SJ_boundary", pre |-> upd, preJns |-> jns,
                     TE |-> <<entry>>, ok |-> TRUE]
         /\ NextJunction(IF r.status THEN Append(sjTE, entry) ELSE sjTE)

\* the iteration on a noncanonical junction once attempt_jn_correction has
\* returned r with the log entry `entry', or has raised
Attempt(r, entry) ==
    IF r.raised
    THEN /\ Rollback(logInfo)
         /\ last' = [stage |-> "NC_SJ_boundary", pre |-> upd, preJns |-> jns,
                     TE |-> <<>>, ok |-> FALSE]
         /\ UNCHANGED <<upd, jns, sjTE, jn, dist>>
    ELSE /\ upd' = IF r.status THEN r.t ELSE upd
         /\ dist' = [jn |-> jn, dist_0 |-> r.dist_0, dist_1 |-> r.dist_1,
                     combined_dist |-> r.dist, done |-> TRUE]
         /\ jns' = r.jns
         /\ logInfo' = IF r.status
                       THEN [logInfo EXCEPT !.corrected_NC_SJs = @ + 1]
                       ELSE [logInfo EXCEPT !.uncorrected_NC_SJs = @ + 1]
         /\ last' = [stage |-> "NC_SJ_boundary", pre |-> upd, preJns |-> jns,
                     TE |-> <<entry>>, ok |-> TRUE]
         /\ NextJunction(Append(sjTE, entry))

\* the log entry of cleanNoncanonical for junction jn
JnEntry(r) ==
    TEEntry(<<jns[jn].start, jns[jn].end>>, "NC_SJ_boundary", r.dist,
            IF r.status THEN "Corrected" ELSE "Uncorrected", r.reason)

AttemptWith(r) == Attempt(r, JnEntry(r))

\* one iteration of the loop of cleanNoncanonical, on junction jn
AttemptJn ==
    /\ pc = "jn"
    /\ IF jns[jn].isCanonical
       THEN /\ NextJunction(sjTE)
            /\ UNCHANGED <<upd, jns, logInfo, last, dist>>
       ELSE AttemptWith(attempt_jn_correction(upd, jns, jn, input.annot,
                                              input.options.maxSJOffset, input.fault))
    /\ UNCHANGED <<input, orig, stages>>
    /\ UNCHANGED outer

\* the return statement after a successful correction
Return ==
    /\ pc = "return"
    /\ pc' = "done"
    /\ ret' = [transcript |-> upd, logInfo |-> logInfo, TE_entries |-> TE_entries,
               rolledBack |-> FALSE]
    /\ UNCHANGED <<input, orig, upd, jns, logInfo, TE_entries, sjTE, jn, warned,
                   stages, last, dist>>
    /\ UNCHANGED outer

Next ==
    \/ CorrectMismatches
    \/ CorrectInsertions
    \/ CorrectDeletions
    \/ CleanNoncanonical
    \/ AttemptJn
    \/ Return

Spec == Init /\ [][Next]_vars

(***************************************************************************)
(* combinedJunctionDist on its own: the arguments are drawn from           *)
(* -MaxDist..MaxDist and the function is applied once.                     *)
(***************************************************************************)
Distances == (0 - MaxDist)..MaxDist

PlainInput ==
    [rec |-> [cigar |-> <<Tok("M", 4)>>, seq |-> RefRead(<<Tok("M", 4)>>, 1, "T")],
     variants |-> NoVariants, annot |-> {},
     options |-> Options(TRUE, TRUE, TRUE, MaxLenIndelOpt, MaxSJOffsetOpt),
     fault |-> NoFault]

InitDist ==
    /\ input = PlainInput
    /\ Start
    /\ pc = "dist"
    /\ \E d0 \in Distances, d1 \in Distances :
          dist = [NoDist EXCEPT !.dist_0 = d0, !.dist_1 = d1]
    /\ Idle

ApplyCombinedJunctionDist ==
    /\ pc = "dist"
    /\ ~dist.done
    /\ dist' = [dist EXCEPT !.combined_dist = combinedJunctionDist(dist.dist_0, dist.dist_1),
                            !.done = TRUE]
    /\ UNCHANGED <<pc, input, orig, upd, jns, logInfo, TE_entries, sjTE, jn, ret,
                   warned, stages, last>>
    /\ UNCHANGED outer

NextDist == ApplyCombinedJunctionDist

SpecDist == InitDist /\ [][NextDist]_vars

(***************************************************************************)
(* check_CIGAR_validity as a specification of its own.  Here the CIGAR is  *)
(* the string itself, a sequence of characters, as the function scans it.  *)
(***************************************************************************)
MaxOps == 3

DigitChars == {"0", "1", "2", "3", "4", "5", "6", "7", "8", "9"}

OpChars == {"M", "I", "D", "N", "S", "H"}

\* str(ct) for a count of one digit
CountText(ct) ==
    LET digit == <<"0", "1", "2", "3", "4", "5", "6", "7", "8", "9">>
    IN  IF ct < 0 THEN <<"-", digit[1 - ct]>> ELSE <<digit[ct + 1]>>

RECURSIVE CigarText(_)
\* the CIGAR string of a sequence of operations
CigarText(ops) ==
    IF ops = <<>> THEN <<>>
    ELSE CountText(Head(ops).ct) \o <<Head(ops).op>> \o CigarText(Tail(ops))

RECURSIVE CigarsUpTo(_)
\* the sequences of at most n operations, the counts negative or not
CigarsUpTo(n) ==
    IF n = 0 THEN {<<>>}
    ELSE LET shorter == CigarsUpTo(n - 1)
         IN  shorter \cup {Append(c, Tok(o, ct)) :
                              c \in shorter, o \in OpChars \ {"H"},
                              ct \in {-1} \cup Runs}

RECURSIVE SplitOn(_, _, _)
\* re.sub(seps, " ", text).split(): the maximal runs of text without a
\* character of seps; cur is the run being read
SplitOn(text, seps, cur) ==
    IF text = <<>> THEN IF cur = <<>> THEN <<>> ELSE <<cur>>
    ELSE IF Head(text) \in seps
         THEN (IF cur = <<>> THEN <<>> ELSE <<cur>>) \o SplitOn(Tail(text), seps, <<>>)
         ELSE SplitOn(Tail(text), seps, Append(cur, Head(text)))

\* splitCIGAR: the operations of the string; every operation that zip()
\* pairs with a count
splitCIGAR(CIGAR) ==
    LET matchTypes == SplitOn(CIGAR, DigitChars, <<>>)
        matchCounts == SplitOn(CIGAR, OpChars, <<>>)
    IN  SubSeq(matchTypes, 1, Min(Len(matchTypes), Len(matchCounts)))

RECURSIVE ValidityWalk(_, _)
\* the loop of check_CIGAR_validity over the operations
ValidityWalk(prev, operations) ==
    IF operations = <<>> THEN TRUE
    ELSE IF prev = <<"N">> /\ Head(operations) # <<"M">> THEN FALSE
    ELSE IF prev = <<"D">> /\ Head(operations) = <<"N">> THEN FALSE
    ELSE ValidityWalk(Head(operations), Tail(operations))

check_CIGAR_validity(CIGAR) ==
    IF \E i \in 1..Len(CIGAR) : CIGAR[i] = "-" THEN FALSE
    ELSE ValidityWalk(<<>>, splitCIGAR(CIGAR))

\* correct_transcript is not running
Rest ==
    /\ input = PlainInput
    /\ Start
    /\ pc = "idle"
    /\ dist = NoDist

InitCigar ==
    /\ Rest
    /\ MainIdle
    /\ BatchIdle
    /\ \E c \in CigarsUpTo(MaxOps) \ {<<>>} : cigarText = CigarText(c)
    /\ validity = NoValidity

CheckCigarValidity ==
    /\ ~validity.returned
    /\ validity' = [returned |-> TRUE, value |-> check_CIGAR_validity(cigarText)]
    /\ UNCHANGED <<recordVars, mainVars, batchVars, cigarText>>

NextCigar == CheckCigarValidity

SpecCigar == InitCigar /\ [][NextCigar]_vars

(***************************************************************************)
(* split_input and the loop of main that starts one worker per CPU.        *)
(***************************************************************************)
MaxRecords == 9

MaxCpus == 4

\* ceil(a / n)
ceil(a, n) == (a + n - 1) \div n

RECURSIVE Chunks(_, _, _)
\* the while loop of split_input from index on
Chunks(my_list, index, batch_size) ==
    IF index >= Len(my_list) THEN <<>>
    ELSE <<SubSeq(my_list, index + 1, Min(index + batch_size, Len(my_list)))>>
         \o Chunks(my_list, index + batch_size, batch_size)

split_input(my_list, n) == Chunks(my_list, 0, ceil(Len(my_list), n))

InitMain ==
    /\ Rest
    /\ CigarIdle
    /\ BatchIdle
    /\ \E k \in 0..MaxRecords : sam_lines = [i \in 1..k |-> i]
    /\ n_cpus \in 1..MaxCpus
    /\ sam_chunks = <<>>
    /\ processes = <<>>
    /\ mainpc = "split"
    /\ exited = <<>>
    /\ joined = 0

\* sam_chunks = split_input(sam_lines, n_cpus)
SplitInput ==
    /\ mainpc = "split"
    /\ sam_chunks' = split_input(sam_lines, n_cpus)
    /\ mainpc' = "start"
    /\ UNCHANGED <<recordVars, cigarVars, batchVars, sam_lines, n_cpus, processes,
                   exited, joined>>

\* one iteration of "for i in range(n_cpus)": sam_chunks[i] raises
\* IndexError when there is no such chunk
StartProcess ==
    /\ mainpc = "start"
    /\ Len(processes) < n_cpus
    /\ IF Len(processes) + 1 > Len(sam_chunks)
       THEN mainpc' = "IndexError" /\ processes' = processes
       ELSE mainpc' = mainpc /\ processes' = Append(processes, sam_chunks[Len(processes) + 1])
    /\ UNCHANGED <<recordVars, cigarVars, batchVars, sam_lines, n_cpus, sam_chunks,
                   exited, joined>>

\* the loop is over: main waits for the workers
JoinProcesses ==
    /\ mainpc = "start"
    /\ Len(processes) = n_cpus
    /\ mainpc' = "join"
    /\ UNCHANGED <<recordVars, cigarVars, batchVars, sam_lines, n_cpus, sam_chunks, processes,
                   exited, joined>>

\* the workers started that have not ended
Running == {i \in 1..Len(processes) : \A k \in 1..Len(exited) : exited[k] # i}

\* run_chunk returns, or raises, in worker i: the process ends, at any
\* moment after its start
RunChunk(i) ==
    /\ i \in Running
    /\ exited' = Append(exited, i)
    /\ UNCHANGED <<recordVars, cigarVars, batchVars, sam_lines, n_cpus, sam_chunks, processes,
                   mainpc, joined>>

\* a join that does not wait for the process
JoinReturnsAtOnce(i) == TRUE

\* one_process.join() returns once the process has ended
JoinReturns(i) == i \notin Running

\* one iteration of "for one_process in processes: one_process.join()"
JoinProcess ==
    /\ mainpc = "join"
    /\ joined < Len(processes)
    /\ JoinReturns(joined + 1)
    /\ joined' = joined + 1
    /\ UNCHANGED <<recordVars, cigarVars, batchVars, sam_lines, n_cpus, sam_chunks, processes,
                   mainpc, exited>>

\* combine_outputs(header, options): the merge reads the outputs of the
\* shards
CombineOutputs ==
    /\ mainpc = "join"
    /\ joined = Len(processes)
    /\ mainpc' = "combine"
    /\ UNCHANGED <<recordVars, cigarVars, batchVars, sam_lines, n_cpus, sam_chunks, processes,
                   exited, joined>>

NextMain ==
    \/ SplitInput
    \/ StartProcess
    \/ JoinProcesses
    \/ \E i \in 1..MaxCpus : RunChunk(i)
    \/ JoinProcess
    \/ CombineOutputs

SpecMain == InitMain /\ [][NextMain]_vars

(***************************************************************************)
(* batch_correct on one shard.  A SAM line is the record [flag, chrom,     *)
(* parses, rec, fault]: parses = FALSE when the construction of the        *)
(* Transcript object raises, fault is the reference lookup that fails      *)
(* while the record is corrected.  An output file is a sequence of text    *)
(* lines, each the sequence of the strings written on it.                  *)
(***************************************************************************)
MaxShard == 3

MaxFlush == 2

\* the mapping status read from the flag alone
MappingByFlag(flag, chrom) ==
    IF flag = 4 THEN "unmapped"
    ELSE IF flag > 16 THEN "non-primary"
    ELSE "primary"

\* logInfo.Mapping of init_log_info
Mapping(flag, chrom) ==
    IF chrom = "*" \/ flag = 4 THEN "unmapped"
    ELSE IF flag > 16 THEN "non-primary"
    ELSE "primary"

SamLine(flag, chrom, parses, cigar, fault) ==
    [flag |-> flag, chrom |-> chrom, parses |-> parses,
     rec |-> [cigar |-> cigar, seq |-> RefRead(cigar, 1, "T")], fault |-> fault]

\* the lines of a shard: an insertion to remove, a junction to correct, the
\* same with a failing lookup, a secondary alignment, two unmapped reads
\* (by flag, by chromosome), a line that does not parse
SamLines ==
    {SamLine(0, "chr1", TRUE, <<Tok("M", 2), Tok("I", 1), Tok("M", 2)>>, NoFault),
     SamLine(0, "chr1", TRUE, <<Tok("M", 1), Tok("N", 6), Tok("M", 4)>>, NoFault),
     SamLine(0, "chr1", TRUE, <<Tok("M", 1), Tok("N", 6), Tok("M", 4)>>,
             Fault("sj_closest", 1)),
     SamLine(256, "chr1", TRUE, <<Tok("M", 4)>>, NoFault),
     SamLine(4, "chr1", TRUE, <<Tok("M", 4)>>, NoFault),
     SamLine(0, "*", TRUE, <<Tok("M", 4)>>, NoFault),
     SamLine(0, "chr1", FALSE, <<Tok("M", 4)>>, NoFault)}

RECURSIVE ShardsUpTo(_)
ShardsUpTo(len) ==
    IF len = 0 THEN {<<>>}
    ELSE LET shorter == ShardsUpTo(len - 1)
         IN  shorter \cup {Append(sh, l) : sh \in shorter, l \in SamLines}

\* the references and the options of the worker
BatchInput(line) ==
    Input(line.rec, NoVariants, {<<4, 8>>},
          [options |-> Options(TRUE, TRUE, TRUE, MaxLenIndelOpt, MaxSJOffsetOpt),
           fault |-> line.fault])

\* f.write("\n".join(lines)): the text has no newline at its end, so the
\* next text written starts on the last line of the file
Write(file, lines) ==
    LET text == [i \in 1..Len(lines) |-> <<lines[i]>>]
    IN  IF lines = <<>> THEN file
        ELSE IF file = <<>> THEN text
        ELSE SubSeq(file, 1, Len(file) - 1) \o <<file[Len(file)] \o text[1]>>
             \o Tail(text)

InitBatch ==
    /\ Rest
    /\ CigarIdle
    /\ MainIdle
    /\ sam_transcripts \in ShardsUpTo(MaxShard)
    /\ primaryOnly \in BOOLEAN
    /\ batch_n \in 0..MaxFlush
    /\ idx = 1
    /\ counter = 0
    /\ buffers = NoLines
    /\ outfiles = NoLines
    /\ results = <<>>
    /\ bpc = "loop"

\* "TE_entries = []" without the assignment
LeftoverEntries(previous) == previous

\* "TE_entries = []" at the entry of correct_transcript
NewEntries(previous) == <<>>

\* transcript_init returns None: no Transcript object is built
NoTranscript(line) ==
    /\ bpc' = "none"
    /\ ret' = [NoReturn EXCEPT !.TE_entries = NewEntries(TE_entries)]
    /\ TE_entries' = NewEntries(TE_entries)
    /\ logInfo' = init_log_info
    /\ warned' = IF Mapping(line.flag, line.chrom) = "primary" THEN 1 ELSE 0
    /\ UNCHANGED <<pc, input, orig, upd, jns, sjTE, jn, stages, last, dist>>

\* transcript_init returns a Transcript object and correct_transcript
\* copies it
NewTranscript(line) ==
    /\ bpc' = "correct"
    /\ pc' = "mismatch"
    /\ input' = BatchInput(line)
    /\ orig' = Transcript(line.rec.cigar, 1, line.rec.seq).t
    /\ upd' = orig'
    /\ jns' = Transcript(line.rec.cigar, 1, line.rec.seq).jns
    /\ logInfo' = init_log_info
    /\ TE_entries' = NewEntries(TE_entries)
    /\ sjTE' = <<>>
    /\ jn' = 0
    /\ ret' = NoReturn
    /\ warned' = 0
    /\ stages' = <<>>
    /\ last' = NoStage
    /\ dist' = NoDist

\* the loop of batch_correct takes the next line and calls
\* correct_transcript, which calls transcript_init
BeginRecord ==
    /\ bpc = "loop"
    /\ idx <= Len(sam_transcripts)
    /\ IF /\ Mapping(sam_transcripts[idx].flag, sam_transcripts[idx].chrom) = "primary"
          /\ sam_transcripts[idx].parses
       THEN NewTranscript(sam_transcripts[idx])
       ELSE NoTranscript(sam_transcripts[idx])
    /\ UNCHANGED <<cigarVars, mainVars, sam_transcripts, primaryOnly, batch_n, idx, counter,
                   buffers, outfiles, results>>

\* create_log_string(logInfo) for the line at position i
LogLine(i, line, log) ==
    [i |-> i, Mapping |-> Mapping(line.flag, line.chrom), counters |-> log]

\* the buffers after the lines of the record at position i are appended
Buffered(i, line, none, r) ==
    [sam |-> IF none
             THEN IF primaryOnly = FALSE
                  THEN Append(buffers.sam, [i |-> i, line |-> line])
                  ELSE buffers.sam
             ELSE Append(buffers.sam, [i |-> i, line |-> r.transcript]),
     fasta |-> IF none THEN buffers.fasta
               ELSE Append(buffers.fasta, [i |-> i, line |-> r.transcript.SEQ]),
     log |-> Append(buffers.log, LogLine(i, line, r.logInfo)),
     TElog |-> IF none THEN buffers.TElog ELSE buffers.TElog \o r.TE_entries]

\* "if counter > n": the sam, fasta and log buffers are written, then
\* tE.write("\n".join(curr_TE)) raises NameError, curr_TE being no name of
\* the program
Flush(buffered) ==
    IF counter > batch_n
    THEN /\ outfiles' = [outfiles EXCEPT !.sam = Write(@, buffered.sam),
                                          !.fasta = Write(@, buffered.fasta),
                                          !.log = Write(@, buffered.log)]
         /\ bpc' = "NameError"
         /\ UNCHANGED <<idx, counter>>
    ELSE /\ counter' = counter + 1
         /\ idx' = idx + 1
         /\ bpc' = "loop"
         /\ outfiles' = outfiles

\* correct_transcript has returned: batch_correct appends the lines of the
\* record to its buffers and checks whether to empty them
EmitRecord ==
    /\ bpc = "none" \/ (bpc = "correct" /\ pc = "done")
    /\ buffers' = Buffered(idx, sam_transcripts[idx], bpc = "none", ret)
    /\ results' = Append(results, [none |-> bpc = "none", transcript |-> ret.transcript,
                                    logInfo |-> ret.logInfo,
                                    TE_entries |-> ret.TE_entries])
    /\ Flush(buffers')
    /\ UNCHANGED <<recordVars, cigarVars, mainVars, sam_transcripts, primaryOnly, batch_n>>

\* "Write any remaining lines"
FinishBatch ==
    /\ bpc = "loop"
    /\ idx > Len(sam_transcripts)
    /\ outfiles' = [sam |-> Write(outfiles.sam, buffers.sam),
                    fasta |-> Write(outfiles.fasta, buffers.fasta),
                    log |-> Write(outfiles.log, buffers.log),
                    TElog |-> Write(outfiles.TElog, buffers.TElog)]
    /\ bpc' = "closed"
    /\ UNCHANGED <<recordVars, cigarVars, mainVars, sam_transcripts, primaryOnly, batch_n,
                   idx, counter, buffers, results>>

NextBatch ==
    \/ BeginRecord
    \/ CorrectMismatches
    \/ CorrectInsertions
    \/ CorrectDeletions
    \/ CleanNoncanonical
    \/ AttemptJn
    \/ Return
    \/ EmitRecord
    \/ FinishBatch

SpecBatch == InitBatch /\ [][NextBatch]_vars

TypeOK ==
    /\ pc \in {"mismatch", "insertion", "deletion", "sj", "jn", "return", "done", "dist",
              "idle"}
    /\ warned \in 0..1
    /\ jn \in 0..Len(jns)

(***************************************************************************)
(* Properties.  The record as constructed, the runs of an alignment with   *)
(* their reference positions (Match, Deletion and Skip consume the         *)
(* reference; Match, Insertion and SoftClip consume the read), and the     *)
(* statements checked.                                                     *)
(***************************************************************************)
Constructed == Transcript(input.rec.cigar, 1, input.rec.seq)

RECURSIVE RunsFrom(_, _, _, _)
RunsFrom(cigar, g, r, seq) ==
    IF cigar = <<>> THEN <<>>
    ELSE LET o == Head(cigar)
             read == o.op \in {"M", "I", "S"}
             ref == o.op \in {"M", "D", "N"}
         IN  <<[op |-> o.op, ct |-> o.ct, g |-> g,
                bases |-> IF read THEN Slice(seq, r, r + o.ct) ELSE <<>>]>>
             \o RunsFrom(Tail(cigar), IF ref THEN g + o.ct ELSE g,
                         IF read THEN r + o.ct ELSE r, seq)

RunsOf(t) == RunsFrom(t.CIGAR, t.POS, 0, t.SEQ)

RECURSIVE Flatten(_, _, _, _)
\* the bases of the runs from the i-th on, the runs numbered in drop giving
\* nothing and the runs numbered in refill the reference bases they span
Flatten(runs, i, drop, refill) ==
    IF i > Len(runs) THEN <<>>
    ELSE (IF i \in drop THEN <<>>
          ELSE IF i \in refill
               THEN [k \in 1..runs[i].ct |-> GenomeBase(runs[i].g + k - 1)]
               ELSE runs[i].bases)
         \o Flatten(runs, i + 1, drop, refill)

Span(run) == <<run.g, run.g + run.ct - 1>>

\* a Match run of t covers the reference positions from..to
MatchCovers(t, from, to) ==
    \E i \in 1..Len(RunsOf(t)) :
        LET u == RunsOf(t)[i]
        IN  u.op = "M" /\ u.g <= from /\ to <= u.g + u.ct - 1

Count(entries, kind, status, reason) ==
    Cardinality({i \in 1..Len(entries) :
                    /\ entries[i].kind = kind /\ entries[i].status = status
                    /\ entries[i].reason = reason})

RolledBack == pc = "done" /\ ret.rolledBack

\* C1: when a correction stage raises, correct_transcript returns the
\* original record with every field, the junction boundary positions
\* included, as it was before correction began
C1_RollbackReturnsOriginal ==
    RolledBack =>
        /\ ret.transcript = Constructed.t
        /\ jns = Constructed.jns

Rank(kind) ==
    CASE kind = "Mismatch" -> 1 [] kind = "Insertion" -> 2
      [] kind = "Deletion" -> 3 [] OTHER -> 4

ExpectedStages ==
    (IF input.options.mismatchCorrection THEN <<"Mismatch">> ELSE <<>>)
    \o (IF input.options.indelCorrection THEN <<"Insertion", "Deletion">> ELSE <<>>)
    \o (IF input.annot # {} /\ input.options.sjCorrection
        THEN <<"NC_SJ_boundary">> ELSE <<>>)

\* C3: the enabled stages run in the order Mismatch, Insertion, Deletion,
\* SpliceJunction, every enabled stage runs, and the log entries appear in
\* that order
C3_StageOrder ==
    /\ \A i, j \in 1..Len(stages) : i < j => Rank(stages[i]) < Rank(stages[j])
    /\ \A i, j \in 1..Len(TE_entries) :
          i < j => Rank(TE_entries[i].kind) <= Rank(TE_entries[j].kind)
    /\ pc = "done" /\ ~ret.rolledBack =>
          /\ stages = ExpectedStages
          /\ \A i, j \in 1..Len(ret.TE_entries) :
                i < j => Rank(ret.TE_entries[i].kind) <= Rank(ret.TE_entries[j].kind)

\* a returned log with entries of all four kinds
C3_AllKindsLogged ==
    /\ pc = "done" /\ ~ret.rolledBack
    /\ {ret.TE_entries[i].kind : i \in 1..Len(ret.TE_entries)}
         = {"Mismatch", "Insertion", "Deletion", "NC_SJ_boundary"}

CleanInput ==
    /\ ~HasLetters(Constructed.t.MD)
    /\ ~HasOp(input.rec.cigar, "I") /\ ~HasOp(input.rec.cigar, "D")
    /\ \A i \in 1..Len(Constructed.jns) : Constructed.jns[i].isCanonical

\* C4: a record without mismatch, Insertion and Deletion whose junctions are
\* all canonical is returned unchanged and without log entry
C4_CleanRecordUnchanged ==
    pc = "done" /\ CleanInput =>
        /\ ret.transcript = Constructed.t
        /\ jns = Constructed.jns
        /\ ret.TE_entries = <<>>

\* a clean spliced record went through the four stages
C4_CleanRecordCorrected ==
    /\ pc = "done" /\ CleanInput
    /\ Len(jns) > 0
    /\ stages = <<"Mismatch", "Insertion", "Deletion", "NC_SJ_boundary">>

Indices(runs, kind) == {i \in 1..Len(runs) : runs[i].op = kind}

RECURSIVE SumRuns(_, _)
SumRuns(runs, S) ==
    IF S = {} THEN 0
    ELSE LET i == CHOOSE x \in S : TRUE IN runs[i].ct + SumRuns(runs, S \ {i})

\* run i lies between two Match runs
BetweenMatches(runs, i) ==
    i > 1 /\ i < Len(runs) /\ runs[i - 1].op = "M" /\ runs[i + 1].op = "M"

\* the state in which a stage has just returned
JustRan(stage) == last.stage = stage /\ last.ok /\ pc # "done"

\* the Insertion runs of the record within the size bound that match no
\* cataloged insertion
Removable(runs) ==
    {i \in Indices(runs, "I") :
        /\ runs[i].ct <= input.options.maxLenIndel
        /\ ~(/\ Span(runs[i]) \in DOMAIN input.variants.insertions
             /\ runs[i].bases \in input.variants.insertions[Span(runs[i])])}

\* C5: correctInsertions removes the bases of every Insertion run within the
\* size bound that matches no cataloged insertion, keeps the bases outside
\* the Insertion runs in order, leaves no Insertion at its coordinate and
\* merges the Match runs on its two sides
C5_InsertionsRemoved ==
    (JustRan("Insertion") /\ Removable(RunsOf(last.pre)) # {}) =>
        LET runs == RunsOf(last.pre)
            R == Removable(runs)
        IN  /\ \E K \in SUBSET (Indices(runs, "I") \ R) :
                  /\ upd.SEQ = Flatten(runs, 1, R \cup K, {})
                  /\ Len(upd.SEQ) = Len(last.pre.SEQ) - SumRuns(runs, R \cup K)
            /\ \A i \in R :
                  /\ \A k \in Indices(RunsOf(upd), "I") : RunsOf(upd)[k].g # runs[i].g
                  /\ BetweenMatches(runs, i) =>
                        MatchCovers(upd, runs[i].g - 1, runs[i].g)

\* the Deletion runs of the record within the size bound whose span is no
\* cataloged deletion
Fillable(runs) ==
    {i \in Indices(runs, "D") :
        /\ runs[i].ct <= input.options.maxLenIndel
        /\ Span(runs[i]) \notin input.variants.deletions}

\* C6: correctDeletions puts the reference bases of the span of every
\* Deletion run within the size bound that is no cataloged deletion into the
\* sequence at its read position, turns the run into Match merged with the
\* neighbouring Match runs, and logs one Corrected entry for it; M2 D2 M2
\* without catalog becomes M6 with one entry
C6_DeletionsFilled ==
    (JustRan("Deletion") /\ Fillable(RunsOf(last.pre)) # {}) =>
        LET runs == RunsOf(last.pre)
            F == Fillable(runs)
        IN  /\ \E K \in SUBSET (Indices(runs, "D") \ F) :
                  /\ upd.SEQ = Flatten(runs, 1, {}, F \cup K)
                  /\ Len(upd.SEQ) = Len(last.pre.SEQ) + SumRuns(runs, F \cup K)
                  /\ Count(last.TE, "Deletion", "Corrected", "NA") = Cardinality(F \cup K)
            /\ \A i \in F :
                  /\ MatchCovers(upd, runs[i].g, runs[i].g + runs[i].ct - 1)
                  /\ BetweenMatches(runs, i) =>
                        MatchCovers(upd, runs[i].g - 1, runs[i].g + runs[i].ct)
            /\ (/\ last.pre.CIGAR = <<Tok("M", 2), Tok("D", 2), Tok("M", 2)>>
                /\ input.options.maxLenIndel >= 2
                /\ input.variants.deletions = {})
               => upd.CIGAR = <<Tok("M", 6)>> /\ Len(last.TE) = 1

\* the runs of the given kind longer than the size bound
TooLarge(runs, kind) ==
    {i \in Indices(runs, kind) : runs[i].ct > input.options.maxLenIndel}

\* the runs of pre in S are runs of post, with the same bases
Kept(pre, post, S) ==
    \A i \in S : \E k \in 1..Len(post) :
        /\ post[k].op = pre[i].op /\ post[k].ct = pre[i].ct
        /\ post[k].g = pre[i].g /\ post[k].bases = pre[i].bases

LargeKept(op, kind) ==
    LET runs == RunsOf(last.pre)
    IN  /\ Kept(runs, RunsOf(upd), TooLarge(runs, op))
        /\ Count(last.TE, kind, "Uncorrected", "TooLarge")
             = Cardinality(TooLarge(runs, op))

\* C7: an Insertion or Deletion run longer than the size bound stays in
\* place with its bases and is logged Uncorrected with reason TooLarge,
\* whatever the catalog holds
C7_TooLargeKept ==
    /\ JustRan("Insertion") => LargeKept("I", "Insertion")
    /\ JustRan("Deletion") => LargeKept("D", "Deletion")

\* an Insertion longer than the bound whose span and bases are cataloged
C7_TooLargeCataloged ==
    /\ JustRan("Insertion")
    /\ \E i \in TooLarge(RunsOf(last.pre), "I") :
          LET run == RunsOf(last.pre)[i]
          IN  /\ Span(run) \in DOMAIN input.variants.insertions
              /\ run.bases \in input.variants.insertions[Span(run)]
              /\ last.pre.CIGAR[1].op = "M"

\* the base of t aligned to reference position g, "-" when there is none
AlignedBase(t, g) ==
    LET runs == RunsOf(t)
        at == {i \in Indices(runs, "M") : runs[i].g <= g /\ g < runs[i].g + runs[i].ct}
    IN  IF at = {} THEN "-"
        ELSE LET u == runs[CHOOSE i \in at : TRUE] IN u.bases[g - u.g + 1]

\* the reference positions at which the record mismatches with a cataloged
\* alternate allele
VariantMismatches(t) ==
    {g \in DOMAIN input.variants.snps :
        /\ AlignedBase(t, g) # "-"
        /\ AlignedBase(t, g) # GenomeBase(g)
        /\ AlignedBase(t, g) \in input.variants.snps[g]}

\* C8: in the record returned by correct_transcript the base at a mismatch
\* whose position is cataloged and whose observed base is a cataloged
\* alternate allele is the observed base, and the mismatch is logged
\* Uncorrected with reason VariantMatch
C8_VariantMatchKept ==
    (pc = "done" /\ ~ret.rolledBack /\ input.options.mismatchCorrection) =>
        \A g \in VariantMismatches(Constructed.t) :
            /\ AlignedBase(ret.transcript, g) = AlignedBase(Constructed.t, g)
            /\ \E k \in 1..Len(ret.TE_entries) :
                  ret.TE_entries[k] = TEEntry(<<g>>, "Mismatch", 1,
                                              "Uncorrected", "VariantMatch")

\* the combination of two offsets as the rule is worded
StatedDist(d0, d1) ==
    IF (d0 > 0 /\ d1 < 0) \/ (d0 < 0 /\ d1 > 0) \/ d0 = 0 \/ d1 = 0
    THEN abs(d0) + abs(d1)
    ELSE IF abs(d0) >= abs(d1) THEN abs(d0) - abs(d1) ELSE abs(d1) - abs(d0)

\* C9: combinedJunctionDist(d0, d1) is |d0| + |d1| when the signs differ or
\* either is zero and ||d0| - |d1|| otherwise; (+2,-2) gives 4, (0,+2) gives
\* 2, (+1,+4) gives 3; the result is never negative and is symmetric
C9_CombinedJunctionDist ==
    (pc = "dist" /\ dist.done) =>
        /\ dist.combined_dist = StatedDist(dist.dist_0, dist.dist_1)
        /\ dist.combined_dist >= 0
        /\ dist.combined_dist = combinedJunctionDist(dist.dist_1, dist.dist_0)
        /\ dist.dist_0 = 2 /\ dist.dist_1 = 0 - 2 => dist.combined_dist = 4
        /\ dist.dist_0 = 0 /\ dist.dist_1 = 2 => dist.combined_dist = 2
        /\ dist.dist_0 = 1 /\ dist.dist_1 = 4 => dist.combined_dist = 3

\* the function applied to two offsets of the same sign
C9_SameSign ==
    /\ pc = "dist" /\ dist.done
    /\ dist.dist_0 = 1 /\ dist.dist_1 = 4 /\ dist.combined_dist = 3

\* the junction attempted last is beyond the allowed offsets
BeyondOffsets ==
    \/ StatedDist(dist.dist_0, dist.dist_1) > input.options.maxSJOffset
    \/ abs(dist.dist_0) > 2 * input.options.maxSJOffset
    \/ abs(dist.dist_1) > 2 * input.options.maxSJOffset

Attempted == last.stage = "NC_SJ_boundary" /\ last.TE # <<>>

\* C10: a noncanonical junction is rejected exactly when its combined offset
\* exceeds the max offset or an individual offset exceeds twice the max
\* offset in magnitude; the rejection leaves the record and the junction
\* boundaries as they were and logs Uncorrected, TooFarFromAnnotJn
C10_TooFarRejected ==
    Attempted =>
        /\ last.TE[1].reason = "TooFarFromAnnotJn" <=> BeyondOffsets
        /\ BeyondOffsets =>
              /\ last.TE[1].status = "Uncorrected"
              /\ upd = last.pre
              /\ jns = last.preJns

\* a junction rejected for one offset alone, its combined offset being
\* within the max offset
C10_RejectedByOneOffset ==
    /\ Attempted
    /\ last.TE[1].reason = "TooFarFromAnnotJn"
    /\ dist.combined_dist <= input.options.maxSJOffset

\* cleanNoncanonical has returned
JunctionStageDone ==
    /\ \E i \in 1..Len(stages) : stages[i] = "NC_SJ_boundary"
    /\ pc = "return" \/ (pc = "done" /\ ~ret.rolledBack)

\* the junctions of the record as constructed that are not canonical
NoncanonicalJunctions ==
    SelectSeq(Constructed.jns, LAMBDA j : ~j.isCanonical)

\* C11 as stated: the junction stage emits one log entry per junction of
\* the record
C11_OneEntryPerJunction == JunctionStageDone => Len(sjTE) = Len(jns)

\* C11 as amended: the junction stage emits, in order, one log entry per
\* junction of the record that is not canonical, whatever the outcome, and
\* none for a canonical junction
C11_OneEntryPerNoncanonicalJunction ==
    JunctionStageDone =>
        /\ Len(sjTE) = Len(NoncanonicalJunctions)
        /\ \A i \in 1..Len(sjTE) :
              /\ sjTE[i].kind = "NC_SJ_boundary"
              /\ sjTE[i].id = <<NoncanonicalJunctions[i].start,
                                NoncanonicalJunctions[i].end>>

\* two junctions with different outcomes, one corrected and one not
C11_TwoOutcomes ==
    /\ JunctionStageDone
    /\ Len(sjTE) = 2
    /\ sjTE[1].status # sjTE[2].status

\* cleanNoncanonical has just logged a junction attempt that failed with
\* reason Other
AttemptFailedOther ==
    /\ last.stage = "NC_SJ_boundary"
    /\ last.ok
    /\ last.TE # <<>>
    /\ last.TE[1].reason = "Other"

\* C17: after a junction attempt that failed with reason Other, the record
\* cleanNoncanonical carries forward has its pre-attempt sequence, CIGAR and
\* tags, and its junctions have their pre-attempt boundary positions
C17_FailedAttemptInvisible ==
    (AttemptFailedOther /\ pc # "done") =>
        /\ upd = last.pre
        /\ Len(jns) = Len(last.preJns)
        /\ \A i \in 1..Len(jns) :
              /\ jns[i].b0 = last.preJns[i].b0
              /\ jns[i].b1 = last.preJns[i].b1

\* no two adjacent operations of the CIGAR are of the same kind
NoAdjacentSameKind(cigar) ==
    \A i \in 1..(Len(cigar) - 1) : cigar[i].op # cigar[i + 1].op

\* the stages that rewrite the CIGAR through endMatch
RewritingStages == {"Mismatch", "Insertion", "Deletion"}

\* C18: the CIGAR rewritten by correctMismatches, correctInsertions or
\* correctDeletions has no two adjacent operations of the same kind when
\* the CIGAR the stage was given has none
C18_NoAdjacentSameKind ==
    \A stage \in RewritingStages :
        (JustRan(stage) /\ NoAdjacentSameKind(last.pre.CIGAR)) =>
            NoAdjacentSameKind(upd.CIGAR)

\* the operations that consume bases of the read
ReadOps == {"M", "I", "S"}

\* the read-consuming lengths of the CIGAR add up to the sequence length
ReadConsistent(t) == SumCt(t.CIGAR, ReadOps) = Len(t.SEQ)

RefOps == {"M", "D", "N"}

\* C20: no stage changes the genomic span: POS is never modified and the
\* reference-consuming operation lengths (M, D, N) add up to the same total
\* after each stage and each junction correction, a junction shift giving
\* the Skip exactly what the flanking exon loses
C20_SpanKept ==
    /\ pc # "done" =>
          /\ upd.POS = orig.POS
          /\ SumCt(upd.CIGAR, RefOps) = SumCt(orig.CIGAR, RefOps)
    /\ pc = "done" =>
          /\ ret.transcript.POS = orig.POS
          /\ SumCt(ret.transcript.CIGAR, RefOps) = SumCt(orig.CIGAR, RefOps)

\* the operation letters of the string, in order
Letters(text) == SelectSeq(text, LAMBDA ch : ch \in OpChars)

\* a Skip of the string immediately follows a Deletion
SkipAfterDeletion(text) ==
    \E i \in 1..(Len(Letters(text)) - 1) :
        Letters(text)[i] = "D" /\ Letters(text)[i + 1] = "N"

\* a Skip of the string is not immediately followed by a Match
SkipNotBeforeMatch(text) ==
    \E i \in 1..Len(Letters(text)) :
        /\ Letters(text)[i] = "N"
        /\ i = Len(Letters(text)) \/ Letters(text)[i + 1] # "M"

NegativeCount(text) == \E i \in 1..Len(text) : text[i] = "-"

\* C12: check_CIGAR_validity returns False for every CIGAR where a Skip
\* immediately follows a Deletion or is not immediately followed by a Match
\* (a Skip as last operation included), and for every negative count
C12_InvalidCigarRejected ==
    (/\ validity.returned
     /\ \/ SkipAfterDeletion(cigarText)
        \/ SkipNotBeforeMatch(cigarText)
        \/ NegativeCount(cigarText))
    => ~validity.value

RECURSIVE Concat(_)
Concat(lists) == IF lists = <<>> THEN <<>> ELSE Head(lists) \o Concat(Tail(lists))

\* C13: split_input partitions the records into exactly n_cpus shards, in
\* order and without overlap, whose concatenation is the input, and main
\* starts worker i on shard i for every i, whatever the number of records
C13_ExactlyNShards ==
    (mainpc # "split") =>
        /\ Len(sam_chunks) = n_cpus
        /\ Concat(sam_chunks) = sam_lines
        /\ mainpc # "IndexError"
        /\ mainpc = "join" =>
              \A i \in 1..n_cpus : processes[i] = sam_chunks[i]

\* the strings of the file written for the record at position i, as pairs
\* of a text line and a position on it
Written(file, i) ==
    {p \in (1..Len(file)) \X (1..MaxShard) : p[2] <= Len(file[p[1]]) /\ file[p[1]][p[2]].i = i}

\* every text line of the file holds one string
OwnLines(file) == \A l \in 1..Len(file) : Len(file[l]) = 1

\* batch_correct has ended, by its return or by an exception
BatchEnded == bpc \in {"closed", "NameError"}

\* the SAM lines the record at position i is to get
ExpectedSamLines(i) ==
    IF primaryOnly /\ Mapping(sam_transcripts[i].flag, sam_transcripts[i].chrom) # "primary"
    THEN 0 ELSE 1

\* C14: when batch_correct has ended, every record of the shard that parses
\* has one line of the log file and one line of the SAM file (none for a
\* record that is not primary when primaryOnly is set), each on a line of
\* its own
C14_EveryRecordEmittedOnce ==
    BatchEnded =>
        /\ OwnLines(outfiles.sam)
        /\ OwnLines(outfiles.log)
        /\ \A i \in 1..Len(sam_transcripts) :
              sam_transcripts[i].parses =>
                  /\ Cardinality(Written(outfiles.log, i)) = 1
                  /\ Cardinality(Written(outfiles.sam, i)) = ExpectedSamLines(i)

\* the line at position i is primary and its Transcript object cannot be
\* constructed
Unparsable(i) ==
    /\ Mapping(sam_transcripts[i].flag, sam_transcripts[i].chrom) = "primary"
    /\ ~sam_transcripts[i].parses

\* C15: a record whose Transcript object cannot be constructed is not
\* corrected, has its line in the log file, and has its original line in
\* the SAM file, whatever the options
C15_UnparsablePassedThrough ==
    bpc = "closed" =>
        \A i \in 1..Len(sam_transcripts) :
            Unparsable(i) =>
                /\ results[i].none
                /\ Cardinality(Written(outfiles.log, i)) = 1
                /\ \E l \in 1..Len(outfiles.sam) :
                      outfiles.sam[l] = <<[i |-> i, line |-> sam_transcripts[i]]>>

ReturnedEdited ==
    /\ pc = "done"
    /\ ~ret.rolledBack
    /\ ret.transcript.SEQ # orig.SEQ \/ ret.transcript.CIGAR # orig.CIGAR

\* the tags of the record are those of its sequence and CIGAR
TagsRecomputed(t) ==
    /\ getNMandMDFlags(t.POS, t.CIGAR, t.SEQ).ok
    /\ t.NM = getNMandMDFlags(t.POS, t.CIGAR, t.SEQ).NM
    /\ t.MD = getNMandMDFlags(t.POS, t.CIGAR, t.SEQ).MD

\* C21: whenever correct_transcript returns a record whose sequence or CIGAR
\* differs from the input, its NM and MD tags are those recomputed from the
\* final sequence and CIGAR, also when the only edit is the removal of an
\* insertion
C21_TagsRecomputedAfterEdit == ReturnedEdited => TagsRecomputed(ret.transcript)

\* the Insertion run has a cataloged span and cataloged bases
InsertionVariant(run) ==
    /\ Span(run) \in DOMAIN input.variants.insertions
    /\ run.bases \in input.variants.insertions[Span(run)]

\* the entries of the stage for the span of the run with this outcome
Logged(run, kind, status, reason) ==
    \E k \in 1..Len(last.TE) :
        last.TE[k] = TEEntry(Span(run), kind, run.ct, status, reason)

\* C22: an Insertion within the size bound is left in place, logged
\* VariantMatch, only when its span is a cataloged insertion span and its
\* bases are a cataloged allele, and is corrected when the span is cataloged
\* but the bases differ from every allele; a Deletion within the bound is
\* left in place, logged VariantMatch, exactly when its span is a cataloged
\* deletion span; a run left in place keeps its operation and bases
C22_VariantMatchLeftInPlace ==
    /\ JustRan("Insertion") =>
          \A i \in Indices(RunsOf(last.pre), "I") :
              LET run == RunsOf(last.pre)[i]
              IN  run.ct <= input.options.maxLenIndel =>
                    /\ Kept(RunsOf(last.pre), RunsOf(upd), {i}) =>
                          /\ InsertionVariant(run)
                          /\ Logged(run, "Insertion", "Uncorrected", "VariantMatch")
                    /\ (/\ Span(run) \in DOMAIN input.variants.insertions
                        /\ ~InsertionVariant(run)) =>
                          /\ ~Kept(RunsOf(last.pre), RunsOf(upd), {i})
                          /\ Logged(run, "Insertion", "Corrected", "NA")
    /\ JustRan("Deletion") =>
          \A i \in Indices(RunsOf(last.pre), "D") :
              LET run == RunsOf(last.pre)[i]
              IN  run.ct <= input.options.maxLenIndel =>
                    /\ Kept(RunsOf(last.pre), RunsOf(upd), {i})
                          <=> Span(run) \in input.variants.deletions
                    /\ Span(run) \in input.variants.deletions =>
                          Logged(run, "Deletion", "Uncorrected", "VariantMatch")


\* the reference positions at which a base of t aligned in a Match run
\* differs from the reference
Mismatches(t) ==
    {g \in 1..GenomeLen : AlignedBase(t, g) # "-" /\ AlignedBase(t, g) # GenomeBase(g)}

\* the operations of the CIGAR other than Match, in order
OtherOps(cigar) == SelectSeq(cigar, LAMBDA o : o.op # "M")

\* C23: correctMismatches replaces every mismatching base that is not a
\* variant match with the reference base of its position and logs it
\* Corrected; the CIGAR it writes has no Mismatch operation, the sequence
\* keeps its length, and the Insertion, SoftClip, Deletion, Skip and HardClip
\* operations pass through in order with their lengths
C23_MismatchesCorrected ==
    JustRan("Mismatch") =>
        /\ \A g \in Mismatches(last.pre) \ VariantMismatches(last.pre) :
              /\ AlignedBase(upd, g) = GenomeBase(g)
              /\ \E k \in 1..Len(last.TE) :
                    last.TE[k] = TEEntry(<<g>>, "Mismatch", 1, "Corrected", "NA")
        /\ ~HasOp(upd.CIGAR, "X")
        /\ Len(upd.SEQ) = Len(last.pre.SEQ)
        /\ OtherOps(upd.CIGAR) = OtherOps(last.pre.CIGAR)


\* the index in cigar of its j-th Skip, 0 when it has fewer
SkipIndex(cigar, j) ==
    LET at == {i \in 1..Len(cigar) :
                  /\ cigar[i].op = "N"
                  /\ Cardinality({h \in 1..i : cigar[h].op = "N"}) = j}
    IN  IF at = {} THEN 0 ELSE CHOOSE i \in at : TRUE

\* cleanNoncanonical has just corrected junction dist.jn
JustCorrected ==
    /\ Attempted
    /\ last.TE[1].status = "Corrected"
    /\ pc # "done"

\* the CIGAR after the shifts d0 of the start and d1 of the end of the Skip
\* at index k, as the rule is worded: the run before the Skip gains d0, the
\* run after it loses d1 and the Skip changes by d1 - d0; a run left with no
\* base is absent
ShiftedCIGAR(cigar, k, d0, d1) ==
    SelectSeq([cigar EXCEPT ![k - 1].ct = @ + d0,
                            ![k].ct = @ - d0 + d1,
                            ![k + 1].ct = @ - d1],
              LAMBDA o : o.ct # 0)

\* the bases of run i after the shifts: reference bases appended to the run
\* before the Skip or prepended to the run after it, or bases trimmed
ShiftedBases(runs, k, d0, d1, i) ==
    IF i = k - 1
    THEN IF d0 > 0
         THEN runs[i].bases \o [h \in 1..d0 |-> GenomeBase(runs[k].g + h - 1)]
         ELSE DropLast(runs[i].bases, 0 - d0)
    ELSE IF i = k + 1
    THEN IF d1 < 0
         THEN [h \in 1..(0 - d1) |-> GenomeBase(runs[i].g + d1 + h - 1)] \o runs[i].bases
         ELSE DropFirst(runs[i].bases, d1)
    ELSE runs[i].bases

RECURSIVE ShiftedSEQ(_, _, _, _, _)
ShiftedSEQ(runs, k, d0, d1, i) ==
    IF i > Len(runs) THEN <<>>
    ELSE ShiftedBases(runs, k, d0, d1, i) \o ShiftedSEQ(runs, k, d0, d1, i + 1)

\* C24: a successful junction correction shifts each side on its own: the
\* start of the Skip by d0 lengthens the final Match run of the preceding
\* exon by d0 (reference bases appended when d0 > 0, bases trimmed when
\* d0 < 0) and changes the Skip by -d0; the end of the Skip by d1 changes
\* the first Match run of the following exon by -d1 (reference bases
\* prepended when d1 < 0, bases trimmed when d1 > 0) and the Skip by +d1;
\* an offset of 0 leaves SEQ and CIGAR as they were
C24_SidesShifted ==
    JustCorrected =>
        /\ upd.CIGAR = ShiftedCIGAR(last.pre.CIGAR, SkipIndex(last.pre.CIGAR, dist.jn),
                                    dist.dist_0, dist.dist_1)
        /\ upd.SEQ = ShiftedSEQ(RunsOf(last.pre), SkipIndex(last.pre.CIGAR, dist.jn),
                                dist.dist_0, dist.dist_1, 1)


\* the geometry the validator is to enforce: every Skip immediately followed
\* by a Match, no Deletion immediately followed by a Skip, no negative count
WellFormed(cigar) ==
    /\ \A i \in 1..Len(cigar) :
          cigar[i].op = "N" => (i < Len(cigar) /\ cigar[i + 1].op = "M")
    /\ \A i \in 1..(Len(cigar) - 1) :
          ~(cigar[i].op = "D" /\ cigar[i + 1].op = "N")
    /\ \A i \in 1..Len(cigar) : cigar[i].ct >= 0

\* C25: every junction correction reported Corrected leaves a CIGAR in which
\* every Skip is immediately followed by a Match, no Deletion is immediately
\* followed by a Skip and no count is negative; a shift that would give
\* another geometry is reported Uncorrected with reason Other and discarded
C25_CorrectedIsWellFormed ==
    (JustCorrected /\ WellFormed(last.pre.CIGAR)) => WellFormed(upd.CIGAR)


\* C26: combine_outputs starts only after every worker process has ended:
\* the merge reads no shard output while a worker is running, whatever the
\* number of workers and the order in which they end
C26_MergeAfterWorkers == [](mainpc = "combine" => Running = {})

\* the merge has started after two workers ended in the order opposite to
\* that of their start
C26_EndedOutOfOrder ==
    /\ mainpc = "combine"
    /\ \E h, k \in 1..Len(exited) : h < k /\ exited[h] > exited[k]


\* every operation of the CIGAR has a strictly positive length
PositiveCounts(cigar) == \A i \in 1..Len(cigar) : cigar[i].ct > 0

\* C27: every operation of the CIGAR of a returned record has a strictly
\* positive length: no stage and no accepted junction shift, its offset
\* reaching or exceeding the length of the adjacent Skip or of the flanking
\* exon included, leaves an operation of length zero or less
C27_PositiveCounts ==
    (pc = "done" /\ PositiveCounts(orig.CIGAR)) => PositiveCounts(ret.transcript.CIGAR)


\* the number of operations of the given kind
NumOps(cigar, kind) == Cardinality({i \in 1..Len(cigar) : cigar[i].op = kind})

\* the number of entries of the given kind
NumEntries(entries, kind) ==
    Cardinality({i \in 1..Len(entries) : entries[i].kind = kind})

\* C28: the counters of a stage that has completed account for every run:
\* corrected, uncorrected and variant insertions add up to the number of
\* Insertion operations of the CIGAR the stage was given and to the number
\* of its Insertion entries, likewise for deletions; corrected and
\* uncorrected mismatches add up to the number of Mismatch runs and of
\* Mismatch entries; corrected and uncorrected junctions add up to the
\* number of NC_SJ_boundary entries
C28_CountersAccount ==
    /\ JustRan("Insertion") =>
          /\ logInfo.corrected_insertions + logInfo.uncorrected_insertions
               + logInfo.variant_insertions = NumOps(last.pre.CIGAR, "I")
          /\ NumEntries(last.TE, "Insertion") = NumOps(last.pre.CIGAR, "I")
          /\ Len(last.TE) = NumOps(last.pre.CIGAR, "I")
    /\ JustRan("Deletion") =>
          /\ logInfo.corrected_deletions + logInfo.uncorrected_deletions
               + logInfo.variant_deletions = NumOps(last.pre.CIGAR, "D")
          /\ NumEntries(last.TE, "Deletion") = NumOps(last.pre.CIGAR, "D")
          /\ Len(last.TE) = NumOps(last.pre.CIGAR, "D")
    /\ JustRan("Mismatch") =>
          /\ logInfo.corrected_mismatches + logInfo.uncorrected_mismatches
               = NumOps(mergeMDwithCIGAR(last.pre.CIGAR, last.pre.MD).ops, "X")
          /\ NumEntries(last.TE, "Mismatch")
               = NumOps(mergeMDwithCIGAR(last.pre.CIGAR, last.pre.MD).ops, "X")
          /\ Len(last.TE) = NumEntries(last.TE, "Mismatch")
    /\ JunctionStageDone =>
          /\ logInfo.corrected_NC_SJs + logInfo.uncorrected_NC_SJs
               = NumEntries(sjTE, "NC_SJ_boundary")
          /\ Len(sjTE) = NumEntries(sjTE, "NC_SJ_boundary")
          /\ logInfo.corrected_NC_SJs = Count(sjTE, "NC_SJ_boundary", "Corrected", "NA")

\* a stage has completed on a record with two runs of its kind that met
\* different outcomes
C28_TwoOutcomes ==
    \/ /\ JustRan("Insertion")
       /\ logInfo.corrected_insertions = 1
       /\ logInfo.uncorrected_insertions + logInfo.variant_insertions = 1
    \/ /\ JustRan("Deletion")
       /\ logInfo.corrected_deletions = 1
       /\ logInfo.uncorrected_deletions + logInfo.variant_deletions = 1


\* C29: when correct_transcript rolls back, the counters it returns with the
\* original record are those of the freshly initialised log, every counter
\* being NA
C29_RollbackResetsCounters == RolledBack => ret.logInfo = init_log_info


\* the line is a primary alignment: its chromosome is not "*", its flag is
\* not 4 and is at most 16
Primary(line) == line.chrom # "*" /\ line.flag # 4 /\ line.flag <= 16

\* the step in which batch_correct buffers the lines of the record at idx
Emits == bpc # "loop" /\ Len(results') = Len(results) + 1

\* C30: a record is corrected only if it is primary (chromosome not "*",
\* flag not 4 and flag at most 16); an unmapped or non-primary record is
\* passed to no stage, gets a log line whose counters are all NA, no entry
\* of the error log and no FASTA entry, and its line goes to the SAM output
\* unchanged when primaryOnly is off and is omitted when primaryOnly is on
C30_OnlyPrimaryCorrected ==
    [][/\ bpc' = "correct" => Primary(sam_transcripts[idx])
       /\ (Emits /\ ~Primary(sam_transcripts[idx])) =>
             /\ bpc = "none"
             /\ results'[idx].none
             /\ results'[idx].TE_entries = <<>>
             /\ buffers'.TElog = buffers.TElog
             /\ buffers'.fasta = buffers.fasta
             /\ Len(buffers'.log) = Len(buffers.log) + 1
             /\ SubSeq(buffers'.log, 1, Len(buffers.log)) = buffers.log
             /\ buffers'.log[Len(buffers'.log)].i = idx
             /\ buffers'.log[Len(buffers'.log)].counters = init_log_info
             /\ buffers'.sam = IF primaryOnly THEN buffers.sam
                               ELSE Append(buffers.sam,
                                           [i |-> idx, line |-> sam_transcripts[idx]])
       /\ (bpc = "loop" /\ bpc' # "loop" /\ idx <= Len(sam_transcripts)
           /\ ~Primary(sam_transcripts[idx])) =>
             /\ bpc' = "none"
             /\ UNCHANGED <<pc, orig, upd, jns, stages, last>>
             /\ pc \in {"idle", "done"}]_vars

\* an unmapped read and a secondary alignment have been handled after a
\* record that was corrected, primaryOnly being off
C30_NotPrimaryPassedThrough ==
    /\ Len(results) = 3
    /\ ~primaryOnly
    /\ ~results[1].none
    /\ sam_transcripts[2].chrom = "*"
    /\ sam_transcripts[3].flag = 256
    /\ Len(buffers.sam) = 3
    /\ buffers.sam[3].line = sam_transcripts[3]

====
